---- MODULE Spec2Model ----
(***************************************************************************)
(* planetary-society/dashboards: the geo-aggregation pipeline of the       *)
(* cancellations dashboard (docs/shared/js/utils.js, constants.js and the  *)
(* CancellationsDashboard class) as a state machine.                       *)
(*                                                                         *)
(* JavaScript strings are sequences of one-character strings; a            *)
(* JavaScript value is a record tagged by its typeof ("string", "number",  *)
(* "null", "undefined", "object").                                         *)
(***************************************************************************)
EXTENDS Integers, Sequences, FiniteSets, TLC

\* ---------------------------------------------------------------- bounds
\* longest district-number suffix drawn for getGeoidFromDistrict
MaxSuffixLen == 3
\* longest currency string drawn for parseCurrency
MaxCurrencyLen == 4
\* most data rows in the CSV the dashboard loads
MaxRows == 3

VARIABLES
  districtStr,   \* getGeoidFromDistrict: the argument of the call
  geoid,         \* getGeoidFromDistrict: the value returned
  geoidPc,       \* "called" before the body has run, "returned" after
  value,         \* parseCurrency: the argument of the call
  num,           \* parseCurrency: the value returned
  currencyPc,    \* "called" before the body has run, "returned" after
  fetchedText,   \* loadData: the text fetchText returned
  rawData,       \* CancellationsDashboard.rawData: the rows parseCSV returned
  cleanedData,   \* CancellationsDashboard.cleanedData
  districtCounts, \* CancellationsDashboard.districtCounts: GEOID -> count
  hoverInfo,     \* CancellationsDashboard.hoverInfo: GEOID -> hover text
  maxContracts,  \* CancellationsDashboard.maxContracts
  map,           \* CancellationsDashboard.map: null, or the ChoroplethMap's data
  districtsTable,  \* the rows rendered into the districts table
  recipientsTable, \* the rows rendered into the recipients table
  contractsTable,  \* the rows rendered into the full contracts table
  dashPc,        \* how far CancellationsDashboard.init has come
  colorScale,    \* ChoroplethMap (choropleth mode): options.colorScale
  dataMap,       \* ChoroplethMap.dataMap: GEOID -> value
  maxValue,      \* ChoroplethMap.maxValue
  fill,          \* the fill colour render gave each district path
  award_count,   \* get_choropleth_color: the count argument
  max_count,     \* get_choropleth_color: the max_count argument
  scale_color,   \* get_choropleth_color: the colour returned
  scalePc,       \* "called" before the body has run, "returned" after
  parseArg,      \* parseCSV: the text passed in
  parsedLines,   \* parseCSV: each line given to parseCSVLine, with the fields returned
  parsedRows,    \* parseCSV: the rows returned
  parsePc,       \* "called" before the body has run, "returned" after
  tripAmount,    \* the amount formatted and parsed back
  tripText,      \* the amount as written
  tripResult,    \* parseCurrency of the written amount
  tripPc,        \* "start", then "written", then "parsed"
  dataDir,       \* the repository's data/*.csv: date of the file name -> content
  today,         \* the date the runner's clock shows
  lastRun,       \* the latest run of the workflow: what it found, fetched and decided
  page,          \* the dashboard whose script runs
  pageTabs,      \* this.pageTabs, the TabNavigation: tabs, contents, currentTab
  router,        \* this.router, the HashRouter: assigned or not, _currentRoute
  dom,           \* the document: who carries the active class, the district summary
  window,        \* the fragment of the URL and who wrote it, the hashchange events queued, the history
  pageData,      \* this.cleanedData of the page
  navPc,         \* how far init has come
  trace,         \* the calls and events each action of the visitor led to
  districtMap,   \* this.districtMap, the ChoroplethMap: zoom state, outline, handlers
  stateSelector, \* this.stateSelector: selectedState, selectedDistrict
  timers,        \* the renderStateOutline callbacks waiting for their 100 ms
  lastClick,     \* the last click on a polygon and the handlers it invoked
  zoomPc,        \* "rendered" after renderMaps, "ready" after initStateSelector
  interactions,  \* interactions of the visitor so far
  sciCsv,        \* the rows parseCSV returns for the district spending file
  sciDashboard,  \* NASAScienceDashboard: fiscalYears, districtData
  sciStats,      \* what getSummaryStats returned for the value boxes
  sciSelector,   \* the StateSelector: districtsByState, the rendered items
  sciPc          \* "start", "loaded", "boxes", "ready"

geoidVars == <<districtStr, geoidPc, geoid>>
currencyVars == <<value, currencyPc, num>>
dataVars == <<fetchedText, rawData, cleanedData, districtCounts, hoverInfo, maxContracts>>
tableVars == <<districtsTable, recipientsTable, contractsTable>>
dashVars == <<dataVars, map, tableVars, dashPc>>
choroVars == <<colorScale, dataMap, maxValue, fill>>
scaleVars == <<award_count, max_count, scale_color, scalePc>>
parseVars == <<parseArg, parsedLines, parsedRows, parsePc>>
tripVars == <<tripAmount, tripText, tripResult, tripPc>>
flowVars == <<dataDir, today, lastRun>>
navVars == <<page, pageTabs, router, dom, window, pageData, navPc, trace>>
zoomVars == <<districtMap, stateSelector, timers, lastClick, zoomPc, interactions>>
sciVars == <<sciCsv, sciDashboard, sciStats, sciSelector, sciPc>>
vars == <<geoidVars, currencyVars, dashVars, choroVars, scaleVars, parseVars, tripVars, flowVars, navVars, zoomVars, sciVars>>

\* what a step of one part leaves alone: the variables of the other parts
exceptGeoid == <<currencyVars, dashVars, choroVars, scaleVars, parseVars, tripVars, flowVars, navVars, zoomVars, sciVars>>
exceptCurrency == <<geoidVars, dashVars, choroVars, scaleVars, parseVars, tripVars, flowVars, navVars, zoomVars, sciVars>>
exceptDash == <<geoidVars, currencyVars, choroVars, scaleVars, parseVars, tripVars, flowVars, navVars, zoomVars, sciVars>>
exceptChoro == <<geoidVars, currencyVars, dashVars, scaleVars, parseVars, tripVars, flowVars, navVars, zoomVars, sciVars>>
exceptScale == <<geoidVars, currencyVars, dashVars, choroVars, parseVars, tripVars, flowVars, navVars, zoomVars, sciVars>>
exceptParse == <<geoidVars, currencyVars, dashVars, choroVars, scaleVars, tripVars, flowVars, navVars, zoomVars, sciVars>>
exceptTrip == <<geoidVars, currencyVars, dashVars, choroVars, scaleVars, parseVars, flowVars, navVars, zoomVars, sciVars>>
exceptFlow == <<geoidVars, currencyVars, dashVars, choroVars, scaleVars, parseVars, tripVars, navVars, zoomVars, sciVars>>
exceptNav == <<geoidVars, currencyVars, dashVars, choroVars, scaleVars, parseVars, tripVars, flowVars, zoomVars, sciVars>>
exceptZoom == <<geoidVars, currencyVars, dashVars, choroVars, scaleVars, parseVars, tripVars, flowVars, navVars, sciVars>>
exceptSci == <<geoidVars, currencyVars, dashVars, choroVars, scaleVars, parseVars, tripVars, flowVars, navVars, zoomVars>>

\* ------------------------------------------------------- JavaScript values
JSNull == [type |-> "null"]
JSUndefined == [type |-> "undefined"]
JSObject == [type |-> "object"]
JSString(s) == [type |-> "string", chars |-> s]

\* what the model keeps of parseInt's result: NaN, or the integer
ParsedNaN == [nan |-> TRUE]
ParsedInt(n) == [nan |-> FALSE, int |-> n]

\* ---------------------------------------------------------------- strings
LowerLetters ==
  <<"a", "b", "c", "d", "e", "f", "g", "h", "i", "j", "k", "l", "m",
    "n", "o", "p", "q", "r", "s", "t", "u", "v", "w", "x", "y", "z">>

UpperLetters ==
  <<"A", "B", "C", "D", "E", "F", "G", "H", "I", "J", "K", "L", "M",
    "N", "O", "P", "Q", "R", "S", "T", "U", "V", "W", "X", "Y", "Z">>

Digits == <<"0", "1", "2", "3", "4", "5", "6", "7", "8", "9">>

IsDigit(c) == \E i \in 1..10 : Digits[i] = c

DigitValue(c) == (CHOOSE i \in 1..10 : Digits[i] = c) - 1

\* StrWhiteSpaceChar, as far as the input alphabets reach
IsWhiteSpace(c) == c \in {" ", "\t", "\n", "\r"}

\* String.prototype.toUpperCase, one character
ToUpperChar(c) ==
  IF \E i \in 1..26 : LowerLetters[i] = c
  THEN UpperLetters[CHOOSE i \in 1..26 : LowerLetters[i] = c]
  ELSE c

ToLowerChar(c) ==
  IF \E i \in 1..26 : UpperLetters[i] = c
  THEN LowerLetters[CHOOSE i \in 1..26 : UpperLetters[i] = c]
  ELSE c

toUpperCase(s) == [i \in 1..Len(s) |-> ToUpperChar(s[i])]

toLowerCase(s) == [i \in 1..Len(s) |-> ToLowerChar(s[i])]

includes(s, c) == \E i \in 1..Len(s) : s[i] = c

\* String.prototype.split with a one-character separator: the pieces between
\* the separators, in order (always at least one piece)
split(s, sep) ==
  LET cuts == {i \in 1..Len(s) : s[i] = sep}
      cut(m) == CHOOSE i \in cuts : Cardinality({j \in cuts : j <= i}) = m
  IN  [m \in 1..(Cardinality(cuts) + 1) |->
         SubSeq(s, IF m = 1 THEN 1 ELSE cut(m - 1) + 1,
                   IF m = Cardinality(cuts) + 1 THEN Len(s) ELSE cut(m) - 1)]

\* Number.prototype.toString of a non-negative integer
RECURSIVE NatToString(_)
NatToString(n) ==
  IF n < 10 THEN <<Digits[n + 1]>>
  ELSE Append(NatToString(n \div 10), Digits[(n % 10) + 1])

\* padStart left out: the string comes back as it is
padStart_Dropped(s, targetLength, padChar) == s

\* String.prototype.padStart(targetLength, padChar)
RECURSIVE padStart(_, _, _)
padStart(s, targetLength, padChar) ==
  IF Len(s) >= targetLength THEN s
  ELSE padStart(<<padChar>> \o s, targetLength, padChar)

\* parseInt(str, 10): leading white space skipped, an optional sign, then the
\* longest run of decimal digits; NaN when that run is empty.  Whatever
\* follows the digits is ignored.
RECURSIVE SkipWhiteSpace(_)
SkipWhiteSpace(s) ==
  IF s # <<>> /\ IsWhiteSpace(Head(s)) THEN SkipWhiteSpace(Tail(s)) ELSE s

RECURSIVE DigitRun(_)
DigitRun(s) ==
  IF s # <<>> /\ IsDigit(Head(s)) THEN <<Head(s)>> \o DigitRun(Tail(s)) ELSE <<>>

RECURSIVE DigitsToNat(_)
DigitsToNat(ds) ==
  IF ds = <<>> THEN 0
  ELSE 10 * DigitsToNat(SubSeq(ds, 1, Len(ds) - 1)) + DigitValue(ds[Len(ds)])

parseInt(str) ==
  LET trimmed == SkipWhiteSpace(str)
      signed == trimmed # <<>> /\ Head(trimmed) \in {"+", "-"}
      negative == trimmed # <<>> /\ Head(trimmed) = "-"
      digitsRun == DigitRun(IF signed THEN Tail(trimmed) ELSE trimmed)
  IN  IF digitsRun = <<>> THEN ParsedNaN
      ELSE ParsedInt(IF negative THEN 0 - DigitsToNat(digitsRun)
                     ELSE DigitsToNat(digitsRun))

\* ------------------------------------------------------ JavaScript numbers
\* A Number is an IEEE 754 double.  A finite double is kept exactly, as its
\* sign and the set of the binary positions that are 1 in its magnitude:
\* the value is the sum of 2^i over i in bits, and at most MantissaBits
\* consecutive positions are in use.  -0 is kept as 0: no operation of the
\* pipeline tells them apart.
MantissaBits == 53

JSNaN == [type |-> "number", nan |-> TRUE, neg |-> FALSE, bits |-> {}]

Double(neg, bits) ==
  [type |-> "number", nan |-> FALSE, neg |-> neg /\ bits # {}, bits |-> bits]

Zero == Double(FALSE, {})

Max(S) == CHOOSE x \in S : \A y \in S : y <= x

\* the binary positions of a natural number below 2^31
BitsOfNat(n) == {i \in 0..30 : (n \div (2 ^ i)) % 2 = 1}

\* exact sum of two magnitudes: a position is set when an odd number of the
\* two operands and the carry into it are set; a carry comes into a position
\* from a lower one set in both operands, through positions set in either
AddBits(S, T) ==
  LET both == S \cap T
      either == S \cup T
      carry(i) == \E j \in both : j < i /\ \A k \in (j + 1)..(i - 1) : k \in either
  IN  {i \in either \cup {j + 1 : j \in either} : (i \in either /\ i \notin both) # carry(i)}

\* exact difference of two magnitudes, S >= T: a borrow comes into a position
\* from a lower one set in T only, through positions not set in S only
SubBits(S, T) ==
  LET onlyS == S \ T
      onlyT == T \ S
      borrow(i) == \E j \in onlyT : j < i /\ \A k \in (j + 1)..(i - 1) : k \notin onlyS
  IN  IF T = {} THEN S
      ELSE {i \in (0 - Max({0 - j : j \in S \cup T}))..Max(S) :
              (i \in onlyS \/ i \in onlyT) # borrow(i)}

\* magnitude S is smaller than magnitude T
BitsLess(S, T) ==
  LET D == (S \ T) \cup (T \ S) IN D # {} /\ Max(D) \in T

\* round a magnitude to MantissaBits significant bits, to nearest, ties to even
RoundBits(S) ==
  IF S = {} THEN {}
  ELSE
    LET cut == Max(S) - (MantissaBits - 1)
        keep == {i \in S : i >= cut}
        rest == {i \in S : i < cut}
        up == (cut - 1) \in rest /\ (rest # {cut - 1} \/ cut \in keep)
    IN  IF up THEN AddBits(keep, {cut}) ELSE keep

\* a + b on doubles: the exact sum, rounded
NumAdd(a, b) ==
  IF a.neg = b.neg THEN Double(a.neg, RoundBits(AddBits(a.bits, b.bits)))
  ELSE IF a.bits = b.bits THEN Zero
  ELSE IF BitsLess(a.bits, b.bits) THEN Double(b.neg, RoundBits(SubBits(b.bits, a.bits)))
  ELSE Double(a.neg, RoundBits(SubBits(a.bits, b.bits)))

\* a < b on doubles
NumLess(a, b) ==
  IF a.neg /\ ~b.neg THEN TRUE
  ELSE IF ~a.neg /\ b.neg THEN FALSE
  ELSE IF a.neg THEN BitsLess(b.bits, a.bits)
  ELSE BitsLess(a.bits, b.bits)

\* the binary expansion of r/d (0 <= r < d) from position pos downward: need
\* counts the significant bits still to produce (the first 1 starts the
\* count); a remainder left after them sets one more position (the sticky bit)
RECURSIVE FracBits(_, _, _, _, _)
FracBits(r, d, pos, started, need) ==
  IF r = 0 THEN {}
  ELSE IF need <= 0 THEN {pos}
  ELSE
    LET bit == 2 * r >= d
        rest == IF bit THEN 2 * r - d ELSE 2 * r
        going == started \/ bit
    IN  (IF bit THEN {pos} ELSE {})
          \cup FracBits(rest, d, pos - 1, going, IF going THEN need - 1 ELSE need)

\* the double nearest to the decimal n / 10^k (StringToNumber's rounding)
DecimalToBits(n, k) ==
  LET d == 10 ^ k
      whole == BitsOfNat(n \div d)
      need == (MantissaBits + 1) - Cardinality({i \in 0..30 : 2 ^ i <= n \div d})
  IN  RoundBits(whole \cup FracBits(n % d, d, -1, whole # {}, need))

\* parseFloat: leading white space skipped, an optional sign, then the longest
\* prefix that is a decimal literal (digits, an optional point, digits);
\* NaN when there is none.  Whatever follows the literal is ignored.  The
\* input alphabets hold no "e" and no "Infinity", so neither an exponent part
\* nor an infinite value arises.
parseFloat(str) ==
  LET trimmed == SkipWhiteSpace(str)
      signed == trimmed # <<>> /\ Head(trimmed) \in {"+", "-"}
      negative == trimmed # <<>> /\ Head(trimmed) = "-"
      body == IF signed THEN Tail(trimmed) ELSE trimmed
      intDigits == DigitRun(body)
      afterInt == SubSeq(body, Len(intDigits) + 1, Len(body))
      fracDigits ==
        IF afterInt # <<>> /\ Head(afterInt) = "." THEN DigitRun(Tail(afterInt))
        ELSE <<>>
  IN  IF intDigits = <<>> /\ fracDigits = <<>> THEN JSNaN
      ELSE Double(negative,
                  DecimalToBits(DigitsToNat(intDigits \o fracDigits), Len(fracDigits)))

\* ------------------------------------------------------------ constants.js
STATE_FIPS_MAP ==
  {
    <<<<"A", "L">>, <<"0", "1">>>>, <<<<"A", "K">>, <<"0", "2">>>>, <<<<"A", "Z">>, <<"0", "4">>>>,
    <<<<"A", "R">>, <<"0", "5">>>>, <<<<"C", "A">>, <<"0", "6">>>>, <<<<"C", "O">>, <<"0", "8">>>>,
    <<<<"C", "T">>, <<"0", "9">>>>, <<<<"D", "E">>, <<"1", "0">>>>, <<<<"D", "C">>, <<"1", "1">>>>,
    <<<<"F", "L">>, <<"1", "2">>>>, <<<<"G", "A">>, <<"1", "3">>>>, <<<<"H", "I">>, <<"1", "5">>>>,
    <<<<"I", "D">>, <<"1", "6">>>>, <<<<"I", "L">>, <<"1", "7">>>>, <<<<"I", "N">>, <<"1", "8">>>>,
    <<<<"I", "A">>, <<"1", "9">>>>, <<<<"K", "S">>, <<"2", "0">>>>, <<<<"K", "Y">>, <<"2", "1">>>>,
    <<<<"L", "A">>, <<"2", "2">>>>, <<<<"M", "E">>, <<"2", "3">>>>, <<<<"M", "D">>, <<"2", "4">>>>,
    <<<<"M", "A">>, <<"2", "5">>>>, <<<<"M", "I">>, <<"2", "6">>>>, <<<<"M", "N">>, <<"2", "7">>>>,
    <<<<"M", "S">>, <<"2", "8">>>>, <<<<"M", "O">>, <<"2", "9">>>>, <<<<"M", "T">>, <<"3", "0">>>>,
    <<<<"N", "E">>, <<"3", "1">>>>, <<<<"N", "V">>, <<"3", "2">>>>, <<<<"N", "H">>, <<"3", "3">>>>,
    <<<<"N", "J">>, <<"3", "4">>>>, <<<<"N", "M">>, <<"3", "5">>>>, <<<<"N", "Y">>, <<"3", "6">>>>,
    <<<<"N", "C">>, <<"3", "7">>>>, <<<<"N", "D">>, <<"3", "8">>>>, <<<<"O", "H">>, <<"3", "9">>>>,
    <<<<"O", "K">>, <<"4", "0">>>>, <<<<"O", "R">>, <<"4", "1">>>>, <<<<"P", "A">>, <<"4", "2">>>>,
    <<<<"R", "I">>, <<"4", "4">>>>, <<<<"S", "C">>, <<"4", "5">>>>, <<<<"S", "D">>, <<"4", "6">>>>,
    <<<<"T", "N">>, <<"4", "7">>>>, <<<<"T", "X">>, <<"4", "8">>>>, <<<<"U", "T">>, <<"4", "9">>>>,
    <<<<"V", "T">>, <<"5", "0">>>>, <<<<"V", "A">>, <<"5", "1">>>>, <<<<"W", "A">>, <<"5", "3">>>>,
    <<<<"W", "V">>, <<"5", "4">>>>, <<<<"W", "I">>, <<"5", "5">>>>, <<<<"W", "Y">>, <<"5", "6">>>>,
    <<<<"A", "S">>, <<"6", "0">>>>, <<<<"G", "U">>, <<"6", "6">>>>, <<<<"M", "P">>, <<"6", "9">>>>,
    <<<<"P", "R">>, <<"7", "2">>>>, <<<<"V", "I">>, <<"7", "8">>>>
  }

\* STATE_FIPS_MAP[stateAbbr]; undefined for a key the table does not have
\* (a key in upper case never names a property of Object.prototype)
StateFipsLookup(stateAbbr) ==
  IF \E e \in STATE_FIPS_MAP : e[1] = stateAbbr
  THEN JSString((CHOOSE e \in STATE_FIPS_MAP : e[1] = stateAbbr)[2])
  ELSE JSUndefined

\* ------------------------------------------------------------------ utils.js
\* Number.prototype.toString of what parseInt returned
IntToString(n) == IF n < 0 THEN <<"-">> \o NatToString(0 - n) ELSE NatToString(n)

getGeoidFromDistrict(d) ==
  IF d.type # "string" \/ d.chars = <<>> \/ ~includes(d.chars, "-") THEN JSNull
  ELSE
    LET parts == split(d.chars, "-") IN
    IF Len(parts) # 2 THEN JSNull
    ELSE
      LET stateAbbr == toUpperCase(parts[1])
          districtNum == toUpperCase(parts[2])
          stateFips == StateFipsLookup(stateAbbr)
      IN  IF stateFips.type = "undefined" THEN JSNull
          ELSE IF districtNum = <<"Z", "Z">> \/ districtNum = <<"0", "0">>
            THEN JSString(stateFips.chars \o districtNum)
          ELSE
            LET parsed == parseInt(districtNum) IN
            IF parsed.nan THEN JSNull
            ELSE JSString(stateFips.chars \o padStart(IntToString(parsed.int), 2, "0"))

\* the replacement leaving the commas in
StripCurrency_CommasKept(s) == SelectSeq(s, LAMBDA c : c # "$" /\ ~IsWhiteSpace(c))

\* String.prototype.replace(/[$,\s]/g, '')
StripCurrency(s) == SelectSeq(s, LAMBDA c : c \notin {"$", ","} /\ ~IsWhiteSpace(c))

\* parseCurrency (String(value) of an object is "[object Object]", not a
\* number)
parseCurrency(v) ==
  IF v.type \in {"null", "undefined"} \/ v = JSString(<<>>) THEN JSNull
  ELSE IF v.type = "number" THEN (IF v.nan THEN JSNull ELSE v)
  ELSE IF v.type # "string" THEN JSNull
  ELSE
    LET cleaned == StripCurrency(v.chars)
        parsed == parseFloat(cleaned)
    IN  IF parsed.nan THEN JSNull ELSE parsed

\* the value of a magnitude's positions at and above 2^0 (below 2^31)
RECURSIVE NatOfBits(_)
NatOfBits(S) == IF S = {} THEN 0 ELSE 2 ^ Max(S) + NatOfBits(S \ {Max(S)})

\* thousands separators of the en-US locale
RECURSIVE GroupThousands(_)
GroupThousands(ds) ==
  IF Len(ds) <= 3 THEN ds
  ELSE GroupThousands(SubSeq(ds, 1, Len(ds) - 3)) \o <<",">>
         \o SubSeq(ds, Len(ds) - 2, Len(ds))

\* num.toLocaleString('en-US', {minimumFractionDigits: 0,
\* maximumFractionDigits: 0}) of a double >= 0: rounded to an integer, halves
\* away from zero, digits grouped by thousands
toLocaleString(n) ==
  GroupThousands(NatToString(NatOfBits({i \in n.bits : i >= 0})
                               + (IF -1 \in n.bits THEN 1 ELSE 0)))

\* formatCurrency(value, false) of a number or null: the full format, the
\* only one the tables and the hover text use
formatCurrency(n) ==
  IF n = JSNull \/ n.nan \/ n.neg THEN <<"N", "/", "A">>
  ELSE IF n.bits = {} THEN <<"$", "0">>
  ELSE <<"$">> \o toLocaleString(n)

\* groupBy(array, key): the groups as the object's entries, each key with its
\* items, in the order the keys were first seen. Object.entries lists a key
\* that is an integer index (the GEOID "1000") before the others; the groups
\* by GEOID are used as a mapping only, and no district label or recipient
\* drawn here is an integer index or a property of Object.prototype
RECURSIVE GroupByReduce(_, _, _)
GroupByReduce(array, key, n) ==
  IF n = 0 THEN <<>>
  ELSE
    LET result == GroupByReduce(array, key, n - 1)
        item == array[n]
        groupKey == item[key]
    IN  IF \E i \in 1..Len(result) : result[i].key = groupKey
        THEN [i \in 1..Len(result) |->
                IF result[i].key = groupKey
                THEN [result[i] EXCEPT !.items = Append(@, item)]
                ELSE result[i]]
        ELSE Append(result, [key |-> groupKey, items |-> <<item>>])

groupBy(array, key) == GroupByReduce(array, key, Len(array))

\* sumBy(array, key) over numbers or null: the items' values added from the
\* left, starting at 0; null and NaN (value || 0) add 0
RECURSIVE SumByReduce(_, _, _)
SumByReduce(array, key, n) ==
  IF n = 0 THEN Zero
  ELSE LET v == array[n][key]
       IN  NumAdd(SumByReduce(array, key, n - 1),
                  IF v = JSNull \/ v.nan THEN Zero ELSE v)

\* sumBy that leaves the last item out
sumBy_DropsLast(array, key) == SumByReduce(array, key, Len(array) - 1)

sumBy(array, key) == SumByReduce(array, key, Len(array))

\* the comparator (a, b) => b[key] - a[key] is negative: a's value is the
\* larger (a double for rawObligations, a count otherwise)
ComesBefore(a, b, key) ==
  IF key = "rawObligations" THEN NumLess(b[key], a[key]) ELSE b[key] < a[key]

\* Array.prototype.sort((a, b) => b[key] - a[key]): descending and stable,
\* each item placed before the first one it must precede
RECURSIVE SortReduce(_, _, _)
SortReduce(array, key, n) ==
  IF n = 0 THEN <<>>
  ELSE
    LET sorted == SortReduce(array, key, n - 1)
        x == array[n]
        later == {i \in 1..Len(sorted) : ComesBefore(x, sorted[i], key)}
        at == IF later = {} THEN Len(sorted) + 1
              ELSE CHOOSE i \in later : \A j \in later : i <= j
    IN  SubSeq(sorted, 1, at - 1) \o <<x>> \o SubSeq(sorted, at, Len(sorted))

sortDescending(array, key) == SortReduce(array, key, Len(array))

\* String.prototype.trim
RECURSIVE trimEnd(_)
trimEnd(s) ==
  IF s # <<>> /\ IsWhiteSpace(s[Len(s)]) THEN trimEnd(SubSeq(s, 1, Len(s) - 1)) ELSE s

trim(s) == trimEnd(SkipWhiteSpace(s))

\* parseCSVLine's loop from index i on: `current` the field being read,
\* `inQuotes` the quote state, `result` the fields finished so far
RECURSIVE ScanLine(_, _, _, _, _)
ScanLine(line, i, current, inQuotes, result) ==
  IF i > Len(line) THEN Append(result, current)
  ELSE IF line[i] = "\"" THEN
    IF inQuotes /\ i + 1 <= Len(line) /\ line[i + 1] = "\""
    THEN ScanLine(line, i + 2, Append(current, "\""), inQuotes, result)
    ELSE ScanLine(line, i + 1, current, ~inQuotes, result)
  ELSE IF line[i] = "," /\ ~inQuotes
    THEN ScanLine(line, i + 1, <<>>, inQuotes, Append(result, current))
  ELSE ScanLine(line, i + 1, Append(current, line[i]), inQuotes, result)

\* the loop with every quote toggling the state, a doubled one included
RECURSIVE ScanLine_NoEscape(_, _, _, _, _)
ScanLine_NoEscape(line, i, current, inQuotes, result) ==
  IF i > Len(line) THEN Append(result, current)
  ELSE IF line[i] = "\"" THEN ScanLine_NoEscape(line, i + 1, current, ~inQuotes, result)
  ELSE IF line[i] = "," /\ ~inQuotes
    THEN ScanLine_NoEscape(line, i + 1, <<>>, inQuotes, Append(result, current))
  ELSE ScanLine_NoEscape(line, i + 1, Append(current, line[i]), inQuotes, result)

parseCSVLine_NoEscape(line) == ScanLine_NoEscape(line, 1, <<>>, FALSE, <<>>)

parseCSVLine(line) == ScanLine(line, 1, <<>>, FALSE, <<>>)

\* headers.forEach((header, index) => row[header.trim()] = values[index]?.trim() || ''):
\* the row object as a function on its keys, a later header of the same name
\* overwriting an earlier one
BuildRow(headers, fields) ==
  [k \in {trim(headers[j]) : j \in 1..Len(headers)} |->
     LET index == Max({j \in 1..Len(headers) : trim(headers[j]) = k})
     IN  IF index <= Len(fields) THEN trim(fields[index]) ELSE <<>>]

\* the lines parseCSV's loop does not skip: lines[i].trim(), for i >= 1, when
\* not empty
DataLines(csvText) ==
  LET lines == split(trim(csvText), "\n")
  IN  SelectSeq([i \in 1..(Len(lines) - 1) |-> trim(lines[i + 1])], LAMBDA line : line # <<>>)

\* parseCSV with the blank lines not skipped
parseCSV_BlankLinesKept(csvText) ==
  LET lines == split(trim(csvText), "\n")
      headers == parseCSVLine(lines[1])
  IN  [i \in 1..(Len(lines) - 1) |-> BuildRow(headers, parseCSVLine(trim(lines[i + 1])))]

\* parseCSV with its loop starting at the header line
parseCSV_HeaderAsRow(csvText) ==
  LET lines == split(trim(csvText), "\n")
      headers == parseCSVLine(lines[1])
      kept == SelectSeq([i \in 1..Len(lines) |-> trim(lines[i])], LAMBDA line : line # <<>>)
  IN  [i \in 1..Len(kept) |-> BuildRow(headers, parseCSVLine(kept[i]))]

parseCSV(csvText) ==
  LET lines == split(trim(csvText), "\n")
  IN  IF Len(lines) = 0 THEN <<>>
      ELSE LET headers == parseCSVLine(lines[1])
               kept == DataLines(csvText)
           IN  [i \in 1..Len(kept) |-> BuildRow(headers, parseCSVLine(kept[i]))]

\* --------------------------------------------- inputs of getGeoidFromDistrict
RECURSIVE SeqsUpTo(_, _)
SeqsUpTo(chars, n) ==
  IF n = 0 THEN {<<>>}
  ELSE LET shorter == SeqsUpTo(chars, n - 1)
       IN  shorter \cup {Append(s, c) : s \in shorter, c \in chars}

StateInputs ==
  { <<"C", "A">>, <<"c", "a">>, <<"C", "a">>, <<"D", "E">>, <<"Z", "Z">>,
    <<"X", "X">>, <<"C">>, <<"C", "A", "A">>, <<>> }

SuffixChars == {"0", "1", "3", "7", "Z", "z", "X"}

SuffixInputs == SeqsUpTo(SuffixChars, MaxSuffixLen)

ExtraParts == {<<>>, <<"1">>, <<"Z", "Z">>}

GeoidInputs ==
  {JSNull, JSUndefined, JSObject, Double(FALSE, BitsOfNat(37))}
    \cup {JSString(st) : st \in StateInputs}
    \cup {JSString(st \o <<"-">> \o suf) : st \in StateInputs, suf \in SuffixInputs}
    \cup {JSString(st \o <<"-">> \o suf \o <<"-">> \o x) :
            st \in StateInputs, suf \in SeqsUpTo(SuffixChars, 1), x \in ExtraParts}

DashIdle ==
  /\ fetchedText = <<>>
  /\ rawData = <<>> /\ cleanedData = <<>> /\ districtCounts = <<>>
  /\ hoverInfo = <<>> /\ maxContracts = 1 /\ map = JSNull
  /\ districtsTable = JSNull /\ recipientsTable = JSNull
  /\ contractsTable = JSNull /\ dashPc = "idle"

GeoidIdle == districtStr = JSUndefined /\ geoid = JSUndefined /\ geoidPc = "idle"

CurrencyIdle == value = JSUndefined /\ num = JSUndefined /\ currencyPc = "idle"

\* no choropleth-mode map constructed
ChoroIdle ==
  colorScale = "" /\ dataMap = <<>> /\ maxValue = 1 /\ fill = <<>>

\* no call of get_choropleth_color
ScaleIdle ==
  award_count = 0 /\ max_count = 1 /\ scale_color = <<>> /\ scalePc = "idle"

\* no call of parseCSV
ParseIdle ==
  parseArg = <<>> /\ parsedLines = <<>> /\ parsedRows = <<>> /\ parsePc = "idle"

\* no amount being formatted and parsed back
TripIdle ==
  tripAmount = Zero /\ tripText = <<>> /\ tripResult = JSUndefined /\ tripPc = "idle"

\* no run of the update workflow
FlowIdle ==
  /\ dataDir = <<>> /\ today = 0
  /\ lastRun = [ran |-> FALSE, day |-> 0, before |-> <<>>, content |-> "", kept |-> FALSE]

\* no page open
NavIdle ==
  page = "none" /\ pageTabs = <<>> /\ router = <<>> /\ dom = <<>> /\ window = <<>> /\ pageData = <<>> /\ navPc = "idle" /\ trace = <<>>

\* no science page open
ZoomIdle ==
  districtMap = <<>> /\ stateSelector = <<>> /\ timers = <<>> /\ lastClick = <<>> /\ zoomPc = "idle" /\ interactions = 0

\* no spending file of the science page read
SciIdle ==
  sciCsv = <<>> /\ sciDashboard = <<>> /\ sciStats = <<>> /\ sciSelector = <<>> /\ sciPc = "idle"

IdleExceptGeoid == CurrencyIdle /\ DashIdle /\ ChoroIdle /\ ScaleIdle /\ ParseIdle /\ TripIdle /\ FlowIdle /\ NavIdle /\ ZoomIdle /\ SciIdle
IdleExceptCurrency == GeoidIdle /\ DashIdle /\ ChoroIdle /\ ScaleIdle /\ ParseIdle /\ TripIdle /\ FlowIdle /\ NavIdle /\ ZoomIdle /\ SciIdle
IdleExceptDash == GeoidIdle /\ CurrencyIdle /\ ChoroIdle /\ ScaleIdle /\ ParseIdle /\ TripIdle /\ FlowIdle /\ NavIdle /\ ZoomIdle /\ SciIdle
IdleExceptChoro == GeoidIdle /\ CurrencyIdle /\ DashIdle /\ ScaleIdle /\ ParseIdle /\ TripIdle /\ FlowIdle /\ NavIdle /\ ZoomIdle /\ SciIdle
IdleExceptScale == GeoidIdle /\ CurrencyIdle /\ DashIdle /\ ChoroIdle /\ ParseIdle /\ TripIdle /\ FlowIdle /\ NavIdle /\ ZoomIdle /\ SciIdle
IdleExceptParse == GeoidIdle /\ CurrencyIdle /\ DashIdle /\ ChoroIdle /\ ScaleIdle /\ TripIdle /\ FlowIdle /\ NavIdle /\ ZoomIdle /\ SciIdle
IdleExceptTrip == GeoidIdle /\ CurrencyIdle /\ DashIdle /\ ChoroIdle /\ ScaleIdle /\ ParseIdle /\ FlowIdle /\ NavIdle /\ ZoomIdle /\ SciIdle
IdleExceptFlow == GeoidIdle /\ CurrencyIdle /\ DashIdle /\ ChoroIdle /\ ScaleIdle /\ ParseIdle /\ TripIdle /\ NavIdle /\ ZoomIdle /\ SciIdle
IdleExceptNav == GeoidIdle /\ CurrencyIdle /\ DashIdle /\ ChoroIdle /\ ScaleIdle /\ ParseIdle /\ TripIdle /\ FlowIdle /\ ZoomIdle /\ SciIdle
IdleExceptZoom == GeoidIdle /\ CurrencyIdle /\ DashIdle /\ ChoroIdle /\ ScaleIdle /\ ParseIdle /\ TripIdle /\ FlowIdle /\ NavIdle /\ SciIdle
IdleExceptSci == GeoidIdle /\ CurrencyIdle /\ DashIdle /\ ChoroIdle /\ ScaleIdle /\ ParseIdle /\ TripIdle /\ FlowIdle /\ NavIdle /\ ZoomIdle

\* --------------------------------------------------- inputs of parseCurrency
CurrencyChars == {"$", ",", " ", ".", "-", "0", "1", "5", "X"}

CurrencyInputs ==
  {JSNull, JSUndefined, JSObject, JSNaN, Zero, Double(FALSE, BitsOfNat(1234))}
    \cup {JSString(s) : s \in SeqsUpTo(CurrencyChars, MaxCurrencyLen)}
    \cup {JSString(<<"N", "/", "A">>),
          JSString(<<"$", "1", ",", "2", "3", "4", ".", "0", "0">>),
          JSString(<<"$", "1", ",", "0", "0", "0", ",", "0", "0", "0">>),
          JSString(<<"1", "2", "a", "b", "c">>)}

\* ------------------------------------------------- parseCurrency, one call
InitCurrency ==
  /\ value \in CurrencyInputs
  /\ currencyPc = "called"
  /\ num = JSUndefined
  /\ IdleExceptCurrency

ReturnCurrency ==
  /\ currencyPc = "called"
  /\ num' = parseCurrency(value)
  /\ currencyPc' = "returned"
  /\ UNCHANGED <<value, exceptCurrency>>

NextCurrency == ReturnCurrency

SpecCurrency == InitCurrency /\ [][NextCurrency]_vars

\* ------------------------------------------- getGeoidFromDistrict, one call
InitGeoid ==
  /\ districtStr \in GeoidInputs
  /\ geoidPc = "called"
  /\ geoid = JSUndefined
  /\ IdleExceptGeoid

ReturnGeoid ==
  /\ geoidPc = "called"
  /\ geoid' = getGeoidFromDistrict(districtStr)
  /\ geoidPc' = "returned"
  /\ UNCHANGED <<districtStr, exceptGeoid>>

NextGeoid == ReturnGeoid

SpecGeoid == InitGeoid /\ [][NextGeoid]_vars

\* ------------------------------------------------- CancellationsDashboard
\* processData: the total row dropped, the amounts and the GEOID added, the
\* rows without an amount dropped
CleanRow(row) ==
  [District |-> row.District, Recipient |-> row.Recipient,
   AwardID |-> row.AwardID, EndDate |-> row.EndDate,
   AwardAmount |-> row.AwardAmount,
   totalObligations |-> parseCurrency(JSString(row.AwardAmount)),
   geoid |-> getGeoidFromDistrict(JSString(row.District))]

processData(raw) ==
  LET kept == SelectSeq(raw, LAMBDA row : toLowerCase(row.EndDate) # <<"t", "o", "t", "a", "l">>)
      mapped == [i \in 1..Len(kept) |-> CleanRow(kept[i])]
  IN  SelectSeq(mapped, LAMBDA row : row.totalObligations # JSNull)

\* calculateDistrictData without its filter: every cleaned row grouped, a null
\* GEOID becoming the property key "null"
DistrictGroups_Unfiltered(cleaned) ==
  groupBy([i \in 1..Len(cleaned) |->
             [cleaned[i] EXCEPT !.geoid = IF @ = JSNull THEN JSString(<<"n", "u", "l", "l">>) ELSE @]],
          "geoid")

\* calculateDistrictData: the groups by GEOID of the rows that have one (only
\* the groups' contents are used, never their order)
DistrictGroups(cleaned) ==
  LET located == SelectSeq(cleaned, LAMBDA row : row.geoid # JSNull)
  IN  groupBy(located, "geoid")

GroupOf(groups, k) == groups[CHOOSE i \in 1..Len(groups) : groups[i].key = k]

CalcDistrictCounts(cleaned) ==
  LET groups == DistrictGroups(cleaned)
  IN  [g \in {groups[i].key.chars : i \in 1..Len(groups)} |->
        Len(GroupOf(groups, JSString(g)).items)]

\* maxContracts started at 0 instead of 1
RECURSIVE CalcMaxContracts_FromZero(_, _)
CalcMaxContracts_FromZero(groups, n) ==
  IF n = 0 THEN 0
  ELSE LET m == CalcMaxContracts_FromZero(groups, n - 1)
           count == Len(groups[n].items)
       IN  IF count > m THEN count ELSE m

\* maxContracts assigned by every group, without the comparison
CalcMaxContracts_LastWins(groups, n) ==
  IF n = 0 THEN 1 ELSE Len(groups[n].items)

\* this.maxContracts = 1, raised by every group whose count exceeds it
RECURSIVE CalcMaxContracts(_, _)
CalcMaxContracts(groups, n) ==
  IF n = 0 THEN 1
  ELSE LET m == CalcMaxContracts(groups, n - 1)
           count == Len(groups[n].items)
       IN  IF count > m THEN count ELSE m

\* Array.prototype.join
RECURSIVE join(_, _)
join(strings, separator) ==
  IF strings = <<>> THEN <<>>
  ELSE IF Len(strings) = 1 THEN strings[1]
  ELSE strings[1] \o separator \o join(Tail(strings), separator)

\* `<b>${contract['Recipient']}</b><br>${amt} (Award ID: ${contract['Award ID']})`
HoverLine(line) ==
  <<"<", "b", ">">> \o line.recipient \o <<"<", "/", "b", ">", "<", "b", "r", ">">> \o line.amt
    \o <<" ", "(", "A", "w", "a", "r", "d", " ", "I", "D", ":", " ">> \o line.awardId \o <<")">>

\* header + '<br><br>' + lines.join('<br>'), the header being
\* `<b>Number of awards: ${count}</b>`
HoverHtml(count, lines) ==
  <<"<", "b", ">", "N", "u", "m", "b", "e", "r", " ", "o", "f", " ", "a", "w", "a", "r", "d", "s", ":", " ">> \o NatToString(count) \o <<"<", "/", "b", ">">> \o <<"<", "b", "r", ">", "<", "b", "r", ">">>
    \o join([i \in 1..Len(lines) |-> HoverLine(lines[i])], <<"<", "b", "r", ">">>)

\* the hover text whose header counts every cleaned row
CalcHoverInfo_CountsAll(cleaned) ==
  LET groups == DistrictGroups(cleaned)
  IN  [g \in {groups[i].key.chars : i \in 1..Len(groups)} |->
        LET contracts == GroupOf(groups, JSString(g)).items
            lines == [i \in 1..Len(contracts) |->
                        [recipient |-> contracts[i].Recipient,
                         amt |-> formatCurrency(contracts[i].totalObligations),
                         awardId |-> contracts[i].AwardID]]
        IN  [header |-> Len(cleaned), lines |-> lines,
             html |-> HoverHtml(Len(cleaned), lines)]]

\* the hover text of a GEOID: the header's count and one line per contract,
\* each with the recipient, the formatted amount and the award id, and the
\* HTML string made of them, which is what hoverInfo[geoid] holds
CalcHoverInfo(cleaned) ==
  LET groups == DistrictGroups(cleaned)
  IN  [g \in {groups[i].key.chars : i \in 1..Len(groups)} |->
        LET contracts == GroupOf(groups, JSString(g)).items
            lines == [i \in 1..Len(contracts) |->
                        [recipient |-> contracts[i].Recipient,
                         amt |-> formatCurrency(contracts[i].totalObligations),
                         awardId |-> contracts[i].AwardID]]
        IN  [header |-> Len(contracts), lines |-> lines,
             html |-> HoverHtml(Len(contracts), lines)]]

\* renderDistrictsTable: one row per district label, by total, descending
DistrictData(cleaned) ==
  LET groups == groupBy(cleaned, "District")
      rows == [i \in 1..Len(groups) |->
                 LET rawTotal == sumBy(groups[i].items, "totalObligations")
                 IN  [district |-> groups[i].key,
                      contractCount |-> Len(groups[i].items),
                      rawObligations |-> rawTotal,
                      totalObligations |-> formatCurrency(rawTotal)]]
  IN  sortDescending(rows, "rawObligations")

\* renderRecipientsTable: one row per recipient, by count, descending
RecipientData(cleaned) ==
  LET groups == groupBy(cleaned, "Recipient")
      rows == [i \in 1..Len(groups) |->
                 [recipient |-> groups[i].key,
                  contractCount |-> Len(groups[i].items),
                  totalObligations |->
                    formatCurrency(sumBy(groups[i].items, "totalObligations"))]]
  IN  sortDescending(rows, "contractCount")

\* renderContractsTable: every cleaned row, in order
ContractRows(cleaned) ==
  [i \in 1..Len(cleaned) |->
     [awardId |-> cleaned[i].AwardID, district |-> cleaned[i].District,
      recipient |-> cleaned[i].Recipient, endDate |-> cleaned[i].EndDate,
      obligations |-> formatCurrency(cleaned[i].totalObligations)]]

\* ------------------------------------------------ the rows parseCSV returns
Row(district, recipient, awardId, endDate, amount) ==
  [District |-> district, Recipient |-> recipient, AwardID |-> awardId,
   EndDate |-> endDate, AwardAmount |-> amount]

Rows ==
  { Row(<<"C", "A", "-", "3", "7">>, <<"A", "c", "m", "e">>, <<"A", "1">>, <<"2", "0", "2", "5">>, <<"$", "1", ",", "0", "0", "0", ",", "0", "0", "0">>),
    Row(<<"C", "A", "-", "3", "7">>, <<"B", "e", "t", "a">>, <<"A", "2">>, <<"2", "0", "2", "5">>, <<"$", "5", "0", "0", ",", "0", "0", "0">>),
    Row(<<"T", "o", "t", "a", "l">>, <<>>, <<>>, <<>>, <<>>),
    Row(<<>>, <<>>, <<>>, <<"T", "O", "T", "A", "L">>, <<"$", "1", ",", "5", "0", "0", ",", "0", "0", "0">>),
    Row(<<"T", "o", "t", "a", "l">>, <<>>, <<>>, <<>>, <<"$", "1", ",", "5", "0", "0", ",", "0", "0", "0">>),
    Row(<<"C", "A", "-", "3", "7">>, <<"A", "c", "m", "e">>, <<"A", "3">>, <<"2", "0", "2", "5">>, <<"N", "/", "A">>),
    Row(<<"X", "X", "-", "1">>, <<"A", "c", "m", "e">>, <<"A", "4">>, <<"2", "0", "2", "5">>, <<"$", "5", "0", "0", ",", "0", "0", "0">>),
    Row(<<"D", "E", "-", "0">>, <<"B", "e", "t", "a">>, <<"A", "5">>, <<"2", "0", "2", "5">>, <<"$", "1", ",", "0", "0", "0", ",", "0", "0", "0">>),
    Row(<<"C", "A", "-", "3", "7">>, <<"A", "c", "m", "e">>, <<"A", "6">>, <<"2", "0", "2", "5">>, <<"$", "0", ".", "2", "0">>),
    Row(<<"C", "A", "-", "3", "7">>, <<"A", "c", "m", "e">>, <<"A", "7">>, <<"2", "0", "2", "5">>, <<"$", "0", ".", "6", "0">>),
    Row(<<"C", "A", "-", "3", "7">>, <<"A", "c", "m", "e">>, <<"A", "8">>, <<"2", "0", "2", "5">>, <<"$", "0", ".", "7", "0">>),
    Row(<<"D", "E", "-", "0">>, <<"A", "c", "m", "e">>, <<"A", "9">>, <<"2", "0", "2", "5">>, <<"$", "0">>) }

RowSeqs == UNION {[1..n -> Rows] : n \in 0..MaxRows}

\* the columns of the file the dashboard reads
HeaderLine == <<"D", "i", "s", "t", "r", "i", "c", "t", ",", "R", "e", "c", "i", "p", "i", "e", "n", "t", ",", "A", "w", "a", "r", "d", " ", "I", "D", ",", "E", "n", "d", " ", "D", "a", "t", "e", ",", "A", "w", "a", "r", "d", " ", "A", "m", "o", "u", "n", "t">>

\* a field as the file writes it: between quotes when it holds a comma
CsvField(field) ==
  IF includes(field, ",") THEN <<"\"">> \o field \o <<"\"">> ELSE field

CsvLine(row) ==
  join(<<CsvField(row.District), CsvField(row.Recipient), CsvField(row.AwardID),
         CsvField(row.EndDate), CsvField(row.AwardAmount)>>, <<",">>)

\* the file holding the given rows, one line each under the header line
CsvOf(rows) ==
  join(<<HeaderLine>> \o [i \in 1..Len(rows) |-> CsvLine(rows[i])], <<"\n">>)

\* what fetchText can return: a file of rows, an empty file, white space, a
\* header line with its line end and nothing else
FetchedTexts ==
  {CsvOf(rows) : rows \in RowSeqs} \cup {<<>>, <<"\n">>, HeaderLine \o <<"\n">>}

\* a row of parseCSV as the record of the columns the dashboard reads
Columns(row) ==
  Row(row[<<"D", "i", "s", "t", "r", "i", "c", "t">>], row[<<"R", "e", "c", "i", "p", "i", "e", "n", "t">>], row[<<"A", "w", "a", "r", "d", " ", "I", "D">>], row[<<"E", "n", "d", " ", "D", "a", "t", "e">>],
      row[<<"A", "w", "a", "r", "d", " ", "A", "m", "o", "u", "n", "t">>])

\* ----------------------------------------------- CancellationsDashboard.init
\* the constructor
Init ==
  /\ fetchedText = <<>>
  /\ rawData = <<>>
  /\ cleanedData = <<>>
  /\ districtCounts = <<>>
  /\ hoverInfo = <<>>
  /\ maxContracts = 1
  /\ map = JSNull
  /\ districtsTable = JSNull
  /\ recipientsTable = JSNull
  /\ contractsTable = JSNull
  /\ dashPc = "constructed"
  /\ IdleExceptDash

\* loadData: the CSV fetched and parsed, then processData and
\* calculateDistrictData
LoadData ==
  /\ dashPc = "constructed"
  /\ \E csvText \in FetchedTexts :
       LET rows == parseCSV(csvText)
       IN  /\ fetchedText' = csvText
           /\ rawData' = [i \in 1..Len(rows) |-> Columns(rows[i])]
  /\ cleanedData' = processData(rawData')
  /\ districtCounts' = CalcDistrictCounts(cleanedData')
  /\ hoverInfo' = CalcHoverInfo(cleanedData')
  /\ maxContracts' = LET groups == DistrictGroups(cleanedData')
                     IN  CalcMaxContracts(groups, Len(groups))
  /\ dashPc' = "loaded"
  /\ UNCHANGED <<map, tableVars, exceptDash>>

\* renderMap: the map created and, once its geometry is loaded,
\* setData(districtCounts, hoverInfo, maxContracts)
RenderMap ==
  /\ dashPc = "loaded"
  /\ map' = [dataMap |-> districtCounts, hoverInfo |-> hoverInfo,
             maxValue |-> maxContracts, minValue |-> 0]
  /\ dashPc' = "mapped"
  /\ UNCHANGED <<dataVars, tableVars, exceptDash>>

\* renderTables
RenderTables ==
  /\ dashPc = "mapped"
  /\ districtsTable' = DistrictData(cleanedData)
  /\ recipientsTable' = RecipientData(cleanedData)
  /\ contractsTable' = ContractRows(cleanedData)
  /\ dashPc' = "rendered"
  /\ UNCHANGED <<dataVars, map, exceptDash>>

Next == LoadData \/ RenderMap \/ RenderTables

Spec == Init /\ [][Next]_vars

\* ------------------------------------- ChoroplethMap in choropleth mode
\* Infinity, the threshold of the last step of a stepped scale
JSInfinity == [type |-> "number", nan |-> FALSE, neg |-> FALSE, inf |-> TRUE]

\* a < b on numbers
LessThan(a, b) ==
  IF a.nan \/ b.nan THEN FALSE
  ELSE IF b = JSInfinity THEN a # JSInfinity
  ELSE IF a = JSInfinity THEN FALSE
  ELSE NumLess(a, b)

Num(n) == Double(FALSE, BitsOfNat(n))

\* COLORS.choropleth: the colours of each scale (a colour is kept as one
\* string) and, for the scales that have one, the stepped scale
COLORS_choropleth ==
  [spending |-> [zero |-> "#FFFFFF", low |-> "#ACCCDE", high |-> "#037CC2"],
   cancellations |-> [zero |-> "#FFFFFF", low |-> "#FF5D47", high |-> "#FF5D47"],
   science |-> [zero |-> "#f0f0f0"],
   missions |-> [zero |-> "#f0f0f0"],
   spendingSteps |->
     << [threshold |-> Num(500000), color |-> "#fdfde6"],
        [threshold |-> Num(5000000), color |-> "#d6ebca"],
        [threshold |-> Num(50000000), color |-> "#7fcdbb"],
        [threshold |-> Num(250000000), color |-> "#41b6c4"],
        [threshold |-> Num(1000000000), color |-> "#2c7fb8"],
        [threshold |-> JSInfinity, color |-> "#253494"] >>,
   scienceSteps |->
     << [threshold |-> Num(500000), color |-> "#f7fbff"],
        [threshold |-> Num(5000000), color |-> "#deebf7"],
        [threshold |-> Num(50000000), color |-> "#9ecae1"],
        [threshold |-> Num(250000000), color |-> "#4292c6"],
        [threshold |-> Num(1000000000), color |-> "#2171b5"],
        [threshold |-> JSInfinity, color |-> "#084594"] >>]

ColorScales == {"spending", "cancellations", "science", "missions"}

\* this.colors, for a colorScale that COLORS.choropleth has
Colors(scale) == COLORS_choropleth[scale]

\* the stepped scale of every colour scale cut after its first five steps
SteppedScale_NoLastStep(scale) ==
  IF scale = "spending" THEN SubSeq(COLORS_choropleth.spendingSteps, 1, 5)
  ELSE IF scale = "science" THEN SubSeq(COLORS_choropleth.scienceSteps, 1, 5)
  ELSE JSNull

\* this.steppedScale: COLORS.choropleth[colorScale + 'Steps'] || null
SteppedScale(scale) ==
  IF scale = "spending" THEN COLORS_choropleth.spendingSteps
  ELSE IF scale = "science" THEN COLORS_choropleth.scienceSteps
  ELSE JSNull

\* !value, for null, undefined or a number
IsFalsy(v) == v.type \in {"null", "undefined"} \/ v.nan \/ v = Zero

\* the comparison of the loop turned round, value > step.threshold
RECURSIVE StepFrom_Above(_, _, _)
StepFrom_Above(steps, v, i) ==
  IF i > Len(steps) THEN steps[Len(steps)].color
  ELSE IF LessThan(steps[i].threshold, v) THEN steps[i].color
  ELSE StepFrom_Above(steps, v, i + 1)

\* the comparison of the loop turned into value <= step.threshold
RECURSIVE StepFrom_AtMost(_, _, _)
StepFrom_AtMost(steps, v, i) ==
  IF i > Len(steps) THEN steps[Len(steps)].color
  ELSE IF LessThan(v, steps[i].threshold) \/ v = steps[i].threshold THEN steps[i].color
  ELSE StepFrom_AtMost(steps, v, i + 1)

\* the loop of getSteppedColor from step i on, and the return after it
RECURSIVE StepFrom(_, _, _)
StepFrom(steps, v, i) ==
  IF i > Len(steps) THEN steps[Len(steps)].color
  ELSE IF LessThan(v, steps[i].threshold) THEN steps[i].color
  ELSE StepFrom(steps, v, i + 1)

\* getSteppedColor(value) of a map with the given colorScale (every scale has
\* a zero colour, so the '#f0f0f0' default is not reached)
getSteppedColor(scale, v) ==
  IF IsFalsy(v) \/ v.neg
  THEN Colors(scale).zero
  ELSE IF SteppedScale(scale) = JSNull
  THEN (IF "high" \in DOMAIN Colors(scale) THEN Colors(scale).high ELSE "#037CC2")
  ELSE StepFrom(SteppedScale(scale), v, 1)

\* the districts of the map's geometry
Features == {<<"0", "6", "3", "7">>, <<"1", "0", "0", "0">>}

\* the values a data map is given: amounts at, just below and between the
\* thresholds, zero, a negative amount, half a dollar, Infinity and NaN
DataValues ==
  { Zero, Double(TRUE, {0}), Double(FALSE, {-1}), Num(1), Num(499999),
    Num(500000), Num(4999999), Num(5000000), Num(50000000), Num(250000000),
    Num(999999999), Num(1000000000), JSInfinity, JSNaN }

\* the data maps: a value for some of the districts
DataMaps == UNION {[F -> DataValues] : F \in SUBSET Features}

\* the constructor, and init with the geometry loaded
InitChoropleth ==
  /\ colorScale \in ColorScales
  /\ dataMap = <<>>
  /\ maxValue = 1
  /\ fill = <<>>
  /\ IdleExceptChoro

\* Math.max(...values) of a non-empty set of numbers that are > 0
MaxOfValues(values) == CHOOSE m \in values : \A v \in values : ~LessThan(m, v)

\* this.dataMap[geoid] || 0
ValueOf(data, id) ==
  IF id \in DOMAIN data /\ ~IsFalsy(data[id]) THEN data[id] ELSE Zero

\* setData(dataMap) with no maxValue given, and the render it ends with:
\* every district path filled with getSteppedColor(dataMap[geoid] || 0)
SetData ==
  /\ colorScale \in ColorScales
  /\ \E data \in DataMaps :
       /\ dataMap' = data
       /\ maxValue' =
            LET values == {data[g] : g \in DOMAIN data} \cap
                            {v \in DataValues : LessThan(Zero, v)}
            IN  IF values # {} THEN MaxOfValues(values) ELSE 1
       /\ fill' = [g \in Features |-> getSteppedColor(colorScale, ValueOf(data, g))]
  /\ UNCHANGED <<colorScale, exceptChoro>>

NextChoropleth == SetData

SpecChoropleth == InitChoropleth /\ [][NextChoropleth]_vars

\* ---------------------------------- get_choropleth_color (the Quarto report)
\* most awards of one district drawn for get_choropleth_color
MaxCount == 21

HexDigits == Digits \o <<"a", "b", "c", "d", "e", "f">>

\* int(s, 16) of one digit, in either letter case
HexDigitValue(c) == (CHOOSE i \in 1..16 : HexDigits[i] = ToLowerChar(c)) - 1

\* hex_to_rgb: '#RRGGBB' to (R, G, B)
hex_to_rgb(hex_color) ==
  LET h == IF hex_color # <<>> /\ Head(hex_color) = "#" THEN Tail(hex_color) ELSE hex_color
  IN  [i \in 1..3 |-> 16 * HexDigitValue(h[2 * i - 1]) + HexDigitValue(h[2 * i])]

\* rgb_to_hex: '#{:02x}{:02x}{:02x}' of three integers in 0..255
rgb_to_hex(rgb) ==
  <<"#">> \o HexDigits[(rgb[1] \div 16) + 1] \o HexDigits[(rgb[1] % 16) + 1]
          \o HexDigits[(rgb[2] \div 16) + 1] \o HexDigits[(rgb[2] % 16) + 1]
          \o HexDigits[(rgb[3] \div 16) + 1] \o HexDigits[(rgb[3] % 16) + 1]

color_zero == hex_to_rgb(<<"#", "F", "F", "F", "F", "F", "F">>)
color_one == hex_to_rgb(<<"#", "d", "1", "9", "6", "9", "0">>)
color_max == hex_to_rgb(<<"#", "9", "c", "1", "a", "0", "e">>)

\* 2^k modulo d, for d below 2^7 and k below 80
Pow2Mod(k, d) ==
  IF k < 16 THEN (2 ^ k) % d
  ELSE (((2 ^ (k % 16)) % d) * ((((2 ^ 16) % d) ^ (k \div 16)) % d)) % d

\* the bit at position -k of the binary expansion of r / d, 0 <= r < d
FracBit(r, d, k) == (2 * ((r * Pow2Mod(k - 1, d)) % d)) \div d = 1

\* a / b in floating point, for integers a >= 0 and 0 < b < 2^7: the
\* quotient's first MantissaBits significant bits, rounded to nearest by what
\* is left of the division after them, a half going to the even neighbour
FloatDivide(a, b) ==
  LET whole == BitsOfNat(a \div b)
      r == a % b
      lead == IF whole # {} THEN Max(whole)
              ELSE 0 - (CHOOSE k \in 1..7 :
                          FracBit(r, b, k) /\ \A j \in 1..(k - 1) : ~FracBit(r, b, j))
      cut == lead - (MantissaBits - 1)
      kept == whole \cup {0 - k : k \in {j \in 1..(0 - cut) : FracBit(r, b, j)}}
      rest == (r * Pow2Mod(0 - cut, b)) % b
      up == 2 * rest > b \/ (2 * rest = b /\ cut \in kept)
  IN  IF r = 0 THEN Double(FALSE, whole)
      ELSE Double(FALSE, IF up THEN AddBits(kept, {cut}) ELSE kept)

\* exact product of two magnitudes
RECURSIVE MulBits(_, _)
MulBits(S, T) ==
  IF S = {} THEN {}
  ELSE AddBits({j + Max(S) : j \in T}, MulBits(S \ {Max(S)}, T))

\* n * x in floating point, for an integer n and a double x >= 0
FloatTimesInt(n, x) ==
  Double(n < 0, RoundBits(MulBits(BitsOfNat(IF n < 0 THEN 0 - n ELSE n), x.bits)))

\* round(x) of a double x >= 0: the nearest integer, a half going to the even
\* neighbour
round(x) ==
  LET whole == NatOfBits({i \in x.bits : i >= 0})
      fraction == {i \in x.bits : i < 0}
  IN  IF -1 \notin fraction THEN whole
      ELSE IF fraction # {-1} THEN whole + 1
      ELSE IF whole % 2 = 0 THEN whole ELSE whole + 1

\* one channel: color_one[i] + (color_max[i] - color_one[i]) * t
Channel(i, t) ==
  NumAdd(Double(FALSE, BitsOfNat(color_one[i])),
         FloatTimesInt(color_max[i] - color_one[i], t))

\* every channel truncated instead of rounded
get_choropleth_color_Truncated(c, m) ==
  IF c <= 0 THEN rgb_to_hex(color_zero)
  ELSE IF c = 1 THEN rgb_to_hex(color_one)
  ELSE IF m <= 1 THEN rgb_to_hex(color_one)
  ELSE
    LET quotient == FloatDivide(c - 1, m - 1)
        t == IF NumLess(Double(FALSE, {0}), quotient) THEN Double(FALSE, {0}) ELSE quotient
    IN  rgb_to_hex([i \in 1..3 |-> NatOfBits({b \in Channel(i, t).bits : b >= 0})])

get_choropleth_color(c, m) ==
  IF c <= 0 THEN rgb_to_hex(color_zero)
  ELSE IF c = 1 THEN rgb_to_hex(color_one)
  ELSE IF m <= 1 THEN rgb_to_hex(color_one)
  ELSE
    LET quotient == FloatDivide(c - 1, m - 1)
        t == IF NumLess(Double(FALSE, {0}), quotient) THEN Double(FALSE, {0}) ELSE quotient
    IN  rgb_to_hex([i \in 1..3 |-> round(Channel(i, t))])

InitScale ==
  /\ award_count \in -1..(MaxCount + 1)
  /\ max_count \in 0..MaxCount
  /\ scale_color = <<>>
  /\ scalePc = "called"
  /\ IdleExceptScale

ReturnScale ==
  /\ scalePc = "called"
  /\ scale_color' = get_choropleth_color(award_count, max_count)
  /\ scalePc' = "returned"
  /\ UNCHANGED <<award_count, max_count, exceptScale>>

NextScale == ReturnScale

SpecScale == InitScale /\ [][NextScale]_vars

\* ------------------------------------------------------- parseCSV, one call
\* longest line of the texts made of every line over LineAlphabet
MaxLineLen == 5
\* most data lines of the texts made of SampleLines
MaxDataLines == 3

LineAlphabet == {"a", ",", "\"", " "}

AllLines == UNION {[1..n -> LineAlphabet] : n \in 0..MaxLineLen}

HeaderLines == {<<"h", ",", "k">>, <<" ", "h", " ", ",", " ", "k", " ">>, <<"h", ",", "h">>, <<"h">>}

SampleLines ==
  {<<>>, <<" ">>, <<"a">>, <<"a", ",", "b">>, <<"a", ",", "b", ",", "c">>, <<" ", "a", " ", ",", " ", "b", " ">>,
   <<"\"", "a", ",", "b", "\"", ",", "c">>, <<"a", ",", "b", "\r">>}

\* the texts parseCSV is called with: a header and one line of any shape; a
\* header and lines, blank ones among them; nothing, white space, a header
\* alone
CsvTexts ==
  {<<"h", ",", "k">> \o <<"\n">> \o line : line \in AllLines}
    \cup {join(<<header>> \o body, <<"\n">>) :
            header \in HeaderLines,
            body \in UNION {[1..n -> SampleLines] : n \in 0..MaxDataLines}}
    \cup {<<>>, <<" ">>, <<"\n">>}

\* the calls of parseCSVLine parseCSV makes, in order: the header line, then
\* every line not skipped
ParseCalls(csvText) ==
  LET lines == split(trim(csvText), "\n")
      given == <<lines[1]>> \o DataLines(csvText)
  IN  [i \in 1..Len(given) |-> [line |-> given[i], fields |-> parseCSVLine(given[i])]]

InitParse ==
  /\ parseArg \in CsvTexts
  /\ parsedLines = <<>>
  /\ parsedRows = <<>>
  /\ parsePc = "called"
  /\ IdleExceptParse

ReturnParse ==
  /\ parsePc = "called"
  /\ parsedLines' = ParseCalls(parseArg)
  /\ parsedRows' = parseCSV(parseArg)
  /\ parsePc' = "returned"
  /\ UNCHANGED <<parseArg, exceptParse>>

NextParse == ReturnParse

SpecParse == InitParse /\ [][NextParse]_vars

\* ------------------------------------ formatCurrency, then parseCurrency
\* largest of the consecutive whole-dollar amounts
MaxAmount == 1100

\* whole-dollar amounts: every one up to MaxAmount, and some with two and
\* three separators
WholeAmounts ==
  {Num(n) : n \in (0..MaxAmount) \cup {999999, 1000000, 1234567, 999999999, 1000000000, 2000000000}}

\* amounts with cents, in cents
CentAmounts == (99990..100110) \cup {1, 99, 123456789}

\* an amount of c cents written "$1,234.56"
WrittenCents(c) ==
  <<"$">> \o GroupThousands(NatToString(c \div 100)) \o <<".">>
          \o padStart(NatToString(c % 100), 2, "0")

InitTrip ==
  /\ \/ /\ tripAmount \in WholeAmounts
        /\ tripText = <<>>
        /\ tripPc = "start"
     \/ \E c \in CentAmounts :
          /\ tripAmount = Double(FALSE, DecimalToBits(c, 2))
          /\ tripText = WrittenCents(c)
          /\ tripPc = "written"
  /\ tripResult = JSUndefined
  /\ IdleExceptTrip

\* formatCurrency(amount, false)
FormatAmount ==
  /\ tripPc = "start"
  /\ tripText' = formatCurrency(tripAmount)
  /\ tripPc' = "written"
  /\ UNCHANGED <<tripAmount, tripResult, exceptTrip>>

\* parseCurrency(text)
ParseWritten ==
  /\ tripPc = "written"
  /\ tripResult' = parseCurrency(JSString(tripText))
  /\ tripPc' = "parsed"
  /\ UNCHANGED <<tripAmount, tripText, exceptTrip>>

NextTrip == FormatAmount \/ ParseWritten

SpecTrip == InitTrip /\ [][NextTrip]_vars

\* ------------------------------------------- the Daily Dashboard Update
\* days the workflow is followed over
MaxDays == 4

\* contents the spreadsheet export can have
Contents == {"A", "B", "C"}

\* no run yet
NoRun == [ran |-> FALSE, day |-> 0, before |-> <<>>, content |-> "", kept |-> FALSE]

\* a directory without one file
Removed(dir, file) == [d \in DOMAIN dir \ {file} |-> dir[d]]

\* ls -r data/*.csv | grep -v "$NEW_FILE" | head -n 1, the listing without
\* the new file kept
PreviousFile_NewFileListed(dir, newFile) == Max(DOMAIN dir)

\* PREVIOUS_FILE=$(ls -r data/*.csv | grep -v "$NEW_FILE" | head -n 1): the
\* file with the latest date other than the new one; 0 stands for the empty
\* string
PreviousFile(dir, newFile) ==
  IF DOMAIN dir \ {newFile} = {} THEN 0 ELSE Max(DOMAIN dir \ {newFile})

\* what "Commit & push changes" can leave in the repository: the working
\* directory's files; when the run removed a file that was already committed
\* (a second run on one day), the pattern data/*.csv names no such file any
\* more, and the removal is committed or not
Committed(checkedOut, workDir) ==
  IF DOMAIN checkedOut \subseteq DOMAIN workDir THEN {workDir}
  ELSE {workDir, checkedOut}

InitFlow ==
  /\ dataDir = <<>>
  /\ today = 1
  /\ lastRun = NoRun
  /\ IdleExceptFlow

\* the date changes (a day can pass without a run)
NextDay ==
  /\ today < MaxDays
  /\ today' = today + 1
  /\ UNCHANGED <<dataDir, lastRun, exceptFlow>>

\* one run, started by the schedule or by hand: check out, download to
\* today's file name (curl -o replacing a file of that name), compare with
\* the previous file, remove the new file when identical, commit. A run
\* whose download fails stops there and changes nothing.
RunWorkflow ==
  /\ today \in 1..MaxDays
  /\ \E content \in Contents :
       LET downloaded == (today :> content) @@ dataDir
           previous == PreviousFile(downloaded, today)
           identical == previous # 0 /\ downloaded[previous] = downloaded[today]
           workDir == IF identical THEN Removed(downloaded, today) ELSE downloaded
       IN  /\ dataDir' \in Committed(dataDir, workDir)
           /\ lastRun' = [ran |-> TRUE, day |-> today, before |-> dataDir,
                          content |-> content, kept |-> ~identical]
  /\ UNCHANGED <<today, exceptFlow>>

NextFlow == NextDay \/ RunWorkflow

SpecFlow == InitFlow /\ [][NextFlow]_vars

\* ------------------------------------------- page tabs and the hash router
\* actions of the visitor a run is followed over
MaxUserActions == 2

\* records the cancellations file is followed with
MaxPageRows == 2

\* this.currentTab before a tab was activated (null)
NoTab == "(null)"

\* a value of the id a tab button names in data-tab
TabId(id) == [type |-> "string", id |-> id]

\* this.routeMap of the two dashboards, in the order of Object.entries
routeMap(p) ==
  IF p = "science"
  THEN << [route |-> <<"m", "a", "p", "s">>, tab |-> "summary-tab"],
          [route |-> <<"d", "a", "t", "a">>, tab |-> "data-tab"],
          [route |-> <<"a", "b", "o", "u", "t">>, tab |-> "about-tab"] >>
  ELSE << [route |-> <<"s", "u", "m", "m", "a", "r", "y">>, tab |-> "summary-tab"],
          [route |-> <<"r", "a", "w", "-", "d", "a", "t", "a">>, tab |-> "contracts-tab"],
          [route |-> <<"a", "b", "o", "u", "t">>, tab |-> "about-tab"] >>

\* defaultRoute of the router each dashboard builds
defaultRoute(p) == IF p = "science" THEN <<"m", "a", "p", "s">> ELSE <<"s", "u", "m", "m", "a", "r", "y">>

\* names every object literal inherits from Object.prototype
InheritedProperties ==
  { <<"c", "o", "n", "s", "t", "r", "u", "c", "t", "o", "r">>, <<"t", "o", "S", "t", "r", "i", "n", "g">>, <<"v", "a", "l", "u", "e", "O", "f">>, <<"h", "a", "s", "O", "w", "n", "P", "r", "o", "p", "e", "r", "t", "y">>,
    <<"i", "s", "P", "r", "o", "t", "o", "t", "y", "p", "e", "O", "f">>, <<"p", "r", "o", "p", "e", "r", "t", "y", "I", "s", "E", "n", "u", "m", "e", "r", "a", "b", "l", "e">>, <<"t", "o", "L", "o", "c", "a", "l", "e", "S", "t", "r", "i", "n", "g">>, <<"_", "_", "p", "r", "o", "t", "o", "_", "_">> }

\* this.routeMap[route]: the tab id of an own key, the inherited member for a
\* name of Object.prototype, undefined otherwise
RouteMapLookup(p, route) ==
  IF \E i \in 1..Len(routeMap(p)) : routeMap(p)[i].route = route
  THEN TabId(routeMap(p)[CHOOSE i \in 1..Len(routeMap(p)) : routeMap(p)[i].route = route].tab)
  ELSE IF route \in InheritedProperties THEN JSObject
  ELSE JSUndefined

\* this.routeMap[route] || this.routeMap[<default route>]
TabOfRoute(p, route) ==
  IF RouteMapLookup(p, route).type # "undefined" THEN RouteMapLookup(p, route)
  ELSE RouteMapLookup(p, defaultRoute(p))

\* Object.entries(this.routeMap).find(([r, t]) => t === tabId)?.[0]
RouteOfTab(p, tabId) ==
  IF \E i \in 1..Len(routeMap(p)) : routeMap(p)[i].tab = tabId
  THEN JSString(routeMap(p)[CHOOSE i \in 1..Len(routeMap(p)) :
                              /\ routeMap(p)[i].tab = tabId
                              /\ \A j \in 1..(i - 1) : routeMap(p)[j].tab # tabId].route)
  ELSE JSUndefined

\* the tab buttons of the page in document order, each with its panel (the
\* markup is the one the route map is written for)
PageTabIds(p) == [i \in 1..Len(routeMap(p)) |-> routeMap(p)[i].tab]

\* /^[A-Z]{2}-\d+$/.test(route)
isDistrictRoute(route) ==
  /\ Len(route) >= 4
  /\ \A i \in 1..2 : \E k \in 1..26 : UpperLetters[k] = route[i]
  /\ route[3] = "-"
  /\ \A i \in 4..Len(route) : IsDigit(route[i])

\* the objects the handlers read and write, taken together
World ==
  [page |-> page, pageTabs |-> pageTabs, router |-> router, dom |-> dom,
   window |-> window, trace |-> trace, cleanedData |-> pageData]

\* window.location.hash: empty for an empty fragment, else "#" and the fragment
LocationHash(w) ==
  IF w.window.fragment = <<>> THEN <<>> ELSE <<"#">> \o w.window.fragment

\* HashRouter.getHash: window.location.hash.slice(1)
getHash(w) == SubSeq(LocationHash(w), 2, Len(LocationHash(w)))

\* the fragment an assignment to window.location.hash leaves
FragmentOf(route) == IF route # <<>> /\ route[1] = "#" THEN Tail(route) ELSE route

\* HashRouter.setHash: window.location.hash = route; a changed fragment adds
\* a history entry and queues one hashchange event
setHash(w, route) ==
  IF FragmentOf(route) = w.window.fragment THEN w
  ELSE [w EXCEPT !.window.fragment = FragmentOf(route),
                 !.window.writer = w.trace.cause,
                 !.window.hashchanges = Append(@, w.trace.cause),
                 !.window.history = @ \cup {FragmentOf(route)},
                 !.trace.events[w.trace.cause] = @ + 1]

\* renderDistrictAwards: title and cards of the cleaned rows of the district
renderDistrictAwards(w, districtCode) ==
  [w EXCEPT !.dom.districtTitle = districtCode,
            !.dom.districtAwards =
               SelectSeq(w.cleanedData, LAMBDA award : award.District = districtCode)]

\* showDistrictSummary
showDistrictSummary(w, districtCode) ==
  renderDistrictAwards(
    [w EXCEPT !.dom.pageTabsHidden = TRUE,
              !.dom.activePanels = (@ \ {PageTabIds(w.page)[i] : i \in 1..Len(PageTabIds(w.page))})
                                      \cup {"district-summary"}],
    districtCode)

\* hideDistrictSummary
hideDistrictSummary(w) ==
  [w EXCEPT !.dom.pageTabsHidden = FALSE,
            !.dom.activePanels = @ \ {"district-summary"}]

\* HashRouter.getCurrentRoute() === route
IsCurrentRoute(w, route) ==
  w.router.currentRoute.type = "string" /\ w.router.currentRoute.chars = route

\* the trace notes a call of the router
Called(w, method) == [w EXCEPT !.trace.lastCall = method]

RECURSIVE navigate(_, _, _)

\* the onTabChange of initTabs with the callback of navigate left on
onTabChange_TriggersCallback(w, tabId) ==
  IF RouteOfTab(w.page, tabId).type # "undefined" /\ w.router.set
  THEN navigate(w, RouteOfTab(w.page, tabId).chars, TRUE)
  ELSE w

\* the onTabChange of initTabs without the call of navigate
onTabChange_HashKept(w, tabId) == w

\* the onTabChange both dashboards give their page tabs
onTabChange(w, tabId) ==
  IF RouteOfTab(w.page, tabId).type # "undefined" /\ w.router.set
  THEN navigate(w, RouteOfTab(w.page, tabId).chars, FALSE)
  ELSE w

\* TabNavigation.activateTab; tabId is whatever the caller passes
activateTab(w, tabId) ==
  LET cleared ==
        [w EXCEPT !.dom.activeTabs = {},
                  !.dom.activePanels = @ \ w.pageTabs.contents,
                  !.trace.activateCalls[w.trace.cause] = @ + 1]
  IN  IF tabId.type = "string" /\ tabId.id \in w.pageTabs.contents
      THEN onTabChange([cleared EXCEPT !.dom.activeTabs = {tabId.id},
                                       !.dom.activePanels = @ \cup {tabId.id},
                                       !.pageTabs.currentTab = tabId.id],
                       tabId.id)
      ELSE cleared

\* TabNavigation.handleTabClick
handleTabClick(w, targetId) ==
  IF targetId # w.pageTabs.currentTab THEN activateTab(w, TabId(targetId)) ELSE w

\* TabNavigation.init: the buttons and panels found, then the first tab
\* activated unless the markup already marks one active
TabNavigation_init(w) ==
  LET found == [w EXCEPT !.pageTabs.tabs = PageTabIds(w.page),
                         !.pageTabs.contents = {PageTabIds(w.page)[i] : i \in 1..Len(PageTabIds(w.page))}]
  IN  IF w.dom.activeTabs = {} THEN activateTab(found, TabId(PageTabIds(w.page)[1]))
      ELSE [found EXCEPT !.pageTabs.currentTab =
              PageTabIds(w.page)[CHOOSE i \in 1..Len(PageTabIds(w.page)) :
                                   /\ PageTabIds(w.page)[i] \in w.dom.activeTabs
                                   /\ \A j \in 1..(i - 1) : PageTabIds(w.page)[j] \notin w.dom.activeTabs]]

\* the onRouteChange each dashboard gives its router
onRouteChange(w, route) ==
  LET called == [w EXCEPT !.trace.routeCalls[w.trace.cause] = @ + 1]
  IN  IF w.page = "cancellations"
      THEN IF isDistrictRoute(route) THEN showDistrictSummary(called, route)
           ELSE activateTab(hideDistrictSummary(called), TabOfRoute(w.page, route))
      ELSE activateTab(called, TabOfRoute(w.page, route))

\* HashRouter.navigate
navigate(w, route, triggerCallback) ==
  IF ~IsCurrentRoute(w, route)
  THEN IF triggerCallback
       THEN onRouteChange(setHash([Called(w, "navigate") EXCEPT !.router.currentRoute = JSString(route)], route), route)
       ELSE setHash([Called(w, "navigate") EXCEPT !.router.currentRoute = JSString(route)], route)
  ELSE Called(w, "navigate")

\* HashRouter._handleHashChange with the route left as it was
handleHashChange_RouteKept(w) ==
  LET route == IF getHash(w) # <<>> THEN getHash(w) ELSE defaultRoute(w.page)
  IN  IF ~IsCurrentRoute(w, route) THEN onRouteChange(Called(w, "hashchange"), route)
      ELSE Called(w, "hashchange")

\* HashRouter._handleHashChange
handleHashChange(w) ==
  LET route == IF getHash(w) # <<>> THEN getHash(w) ELSE defaultRoute(w.page)
  IN  IF ~IsCurrentRoute(w, route)
      THEN onRouteChange([Called(w, "hashchange") EXCEPT !.router.currentRoute = JSString(route)], route)
      ELSE Called(w, "hashchange")

\* FIPS_STATE_MAP: STATE_FIPS_MAP with key and value exchanged
FIPS_STATE_MAP == {<<e[2], e[1]>> : e \in STATE_FIPS_MAP}

\* the district code the click handler of renderMap builds from the GEOID of
\* a bubble; undefined when the state code is in no entry
BubbleDistrictCode(g) ==
  IF \E e \in FIPS_STATE_MAP : e[1] = SubSeq(g, 1, 2)
  THEN JSString((CHOOSE e \in FIPS_STATE_MAP : e[1] = SubSeq(g, 1, 2))[2]
                  \o <<"-">> \o SubSeq(g, 3, Len(g)))
  ELSE JSUndefined

\* the final step of CancellationsDashboard.init without its look at the route
AfterLoad_RouteIgnored(w) == w

\* the final step of CancellationsDashboard.init: a district route is shown
\* again now that the data is there
AfterLoad(w) ==
  IF w.page = "cancellations" /\ w.router.currentRoute.type = "string"
     /\ isDistrictRoute(w.router.currentRoute.chars)
  THEN showDistrictSummary(w, w.router.currentRoute.chars)
  ELSE w

\* hashes a page is opened with or the visitor types
Hashes(p) ==
  {<<>>, defaultRoute(p), routeMap(p)[2].route, <<"C", "A", "-", "3", "7">>, <<"T", "X", "-", "0", "2">>, <<"f", "o", "o">>, <<"t", "o", "S", "t", "r", "i", "n", "g">>}

\* cleaned records of the cancellations file
PageRows ==
  { [District |-> <<"C", "A", "-", "3", "7">>, AwardID |-> <<"A", "1">>],
    [District |-> <<"T", "X", "-", "0", "2">>, AwardID |-> <<"A", "2">>] }

PageRowSeqs == UNION {[1..n -> PageRows] : n \in 0..MaxPageRows}

\* the counters of a run: the visitor's actions so far, the one whose handler
\* or event is being served (0 is the load of the page), the call of the
\* router that came last since the visitor acted, and for each action what
\* it was and the calls and events it led to
NoTrace(loadedHash) ==
  [userActions |-> 0, cause |-> 0, loadedHash |-> loadedHash, lastCall |-> "none",
   kind |-> [a \in 1..MaxUserActions |-> "none"],
   activateCalls |-> [a \in 0..MaxUserActions |-> 0],
   routeCalls |-> [a \in 0..MaxUserActions |-> 0],
   events |-> [a \in 0..MaxUserActions |-> 0]]

\* the visitor acts: the next action begins
Caused(w, kind) ==
  [w EXCEPT !.trace.userActions = @ + 1,
            !.trace.cause = w.trace.userActions + 1,
            !.trace.lastCall = "none",
            !.trace.kind[w.trace.userActions + 1] = kind]

\* the handlers' writes taken over
Commit(w) ==
  /\ pageTabs' = w.pageTabs
  /\ router' = w.router
  /\ dom' = w.dom
  /\ window' = w.window
  /\ trace' = w.trace

\* the page is opened: the markup with no tab or the first tab marked active,
\* no script run yet
InitNav ==
  /\ page \in {"cancellations", "science"}
  /\ \E fragment \in Hashes(page) :
       /\ window = [fragment |-> fragment, writer |-> 0, hashchanges |-> <<>>,
                    history |-> {fragment}]
       /\ trace = NoTrace(fragment)
  /\ \E marked \in {{}, {PageTabIds(page)[1]}} :
       dom = [activeTabs |-> marked, activePanels |-> marked, pageTabsHidden |-> FALSE,
              districtTitle |-> <<>>, districtAwards |-> <<>>]
  /\ pageTabs = [tabs |-> <<>>, contents |-> {}, currentTab |-> NoTab]
  /\ router = [set |-> FALSE, currentRoute |-> JSNull]
  /\ pageData = <<>>
  /\ navPc = "start"
  /\ IdleExceptNav

\* initTabs: the page tabs built and initialised, then the router built and
\* initialised, which handles the hash the page was opened with
initTabs ==
  /\ navPc = "start"
  /\ Commit(handleHashChange([TabNavigation_init(World) EXCEPT !.router.set = TRUE]))
  /\ navPc' = "loading"
  /\ UNCHANGED <<page, pageData, exceptNav>>

\* await loadData: the file arrives and is cleaned, or the fetch fails and
\* init ends in its catch
loadData ==
  /\ navPc = "loading"
  /\ \/ /\ pageData' \in (IF page = "cancellations" THEN PageRowSeqs ELSE {<<>>})
        /\ navPc' = "rendering"
     \/ /\ navPc' = "failed"
        /\ UNCHANGED pageData
  /\ UNCHANGED <<page, pageTabs, router, dom, window, trace, exceptNav>>

\* the rest of init after the map was drawn, or its catch
finishInit ==
  /\ navPc = "rendering"
  /\ \/ /\ Commit(AfterLoad([World EXCEPT !.trace.cause = 0]))
        /\ navPc' = "done"
     \/ /\ navPc' = "failed"
        /\ UNCHANGED <<pageTabs, router, dom, window, trace>>
  /\ UNCHANGED <<page, pageData, exceptNav>>

\* the visitor can act once the scripts have run
CanAct == navPc # "start" /\ trace.userActions < MaxUserActions

\* a click on a page tab
clickTab ==
  /\ CanAct
  /\ ~dom.pageTabsHidden
  /\ \E i \in 1..Len(pageTabs.tabs) :
       Commit(handleTabClick(Caused(World, "click"), pageTabs.tabs[i]))
  /\ UNCHANGED <<page, pageData, navPc, exceptNav>>

\* the visitor types another hash into the address bar
editHash ==
  /\ CanAct
  /\ \E fragment \in Hashes(page) \ {window.fragment} :
       Commit([Caused(World, "hash") EXCEPT
                 !.window.fragment = fragment,
                 !.window.writer = trace.userActions + 1,
                 !.window.hashchanges = Append(@, trace.userActions + 1),
                 !.window.history = @ \cup {fragment},
                 !.trace.events[trace.userActions + 1] = @ + 1])
  /\ UNCHANGED <<page, pageData, navPc, exceptNav>>

\* back or forward to another entry of the history
goHistory ==
  /\ CanAct
  /\ \E fragment \in window.history \ {window.fragment} :
       Commit([Caused(World, "history") EXCEPT
                 !.window.fragment = fragment,
                 !.window.writer = trace.userActions + 1,
                 !.window.hashchanges = Append(@, trace.userActions + 1),
                 !.trace.events[trace.userActions + 1] = @ + 1])
  /\ UNCHANGED <<page, pageData, navPc, exceptNav>>

\* a click on the back button of the district summary
clickBack ==
  /\ CanAct
  /\ page = "cancellations"
  /\ "district-summary" \in dom.activePanels
  /\ Commit(navigate(Caused(World, "back"), <<"s", "u", "m", "m", "a", "r", "y">>, TRUE))
  /\ UNCHANGED <<page, pageData, navPc, exceptNav>>

\* a click on a bubble of the map, drawn for the GEOIDs of the cleaned rows
clickBubble ==
  /\ CanAct
  /\ page = "cancellations"
  /\ navPc = "done"
  /\ "summary-tab" \in dom.activePanels
  /\ \E i \in 1..Len(pageData) :
       LET g == getGeoidFromDistrict(JSString(pageData[i].District))
       IN  /\ g.type = "string"
           /\ BubbleDistrictCode(g.chars).type = "string"
           /\ Commit(navigate(Caused(World, "bubble"), BubbleDistrictCode(g.chars).chars, TRUE))
  /\ UNCHANGED <<page, pageData, navPc, exceptNav>>

\* the browser delivers the oldest hashchange event to the router; what the
\* handler does, it does for the hash it reads, so for the action that wrote
\* that hash
hashchange ==
  /\ navPc # "start"
  /\ window.hashchanges # <<>>
  /\ Commit(handleHashChange([World EXCEPT !.trace.cause = window.writer,
                                            !.window.hashchanges = Tail(@)]))
  /\ UNCHANGED <<page, pageData, navPc, exceptNav>>

NextNav ==
  \/ initTabs
  \/ loadData
  \/ finishInit
  \/ clickTab
  \/ editHash
  \/ goHistory
  \/ clickBack
  \/ clickBubble
  \/ hashchange

SpecNav == InitNav /\ [][NextNav]_vars

\* ------------------------------------- the district map and state selector
\* interactions of the visitor a run is followed over
MaxInteractions == 4

\* renderStateOutline callbacks that can wait at one time
MaxTimers == 2

\* the features of the districts file: STATEFP and GEOID of their properties
\* (the last one of a state code the FIPS table does not have)
MapFeatures ==
  { [STATEFP |-> <<"0", "6">>, GEOID |-> <<"0", "6", "3", "7">>],
    [STATEFP |-> <<"0", "6">>, GEOID |-> <<"0", "6", "1", "2">>],
    [STATEFP |-> <<"0", "2">>, GEOID |-> <<"0", "2", "0", "0">>],
    [STATEFP |-> <<"4", "8">>, GEOID |-> <<"4", "8", "0", "2">>],
    [STATEFP |-> <<"9", "9">>, GEOID |-> <<"9", "9", "0", "1">>] }

\* the values of the state column of the district file, the options of the
\* selector: three states the map draws, one it has no feature of, and one
\* the FIPS table does not know
SelectorStates == {<<"C", "A">>, <<"A", "K">>, <<"T", "X">>, <<"P", "R">>, <<"X", "X">>}

\* the district rows of the file: state column and district code
SelectorDistricts ==
  { [state |-> <<"C", "A">>, district |-> <<"C", "A", "-", "3", "7">>],
    [state |-> <<"C", "A">>, district |-> <<"C", "A", "-", "1", "2">>],
    [state |-> <<"A", "K">>, district |-> <<"A", "K", "-", "0", "0">>],
    [state |-> <<"T", "X">>, district |-> <<"T", "X", "-", "0", "2">>],
    [state |-> <<"P", "R">>, district |-> <<"P", "R", "-", "0", "0">>] }

\* the map, the selector and the timers, taken together
ZoomWorld ==
  [districtMap |-> districtMap, stateSelector |-> stateSelector, timers |-> timers,
   lastClick |-> lastClick]

\* FIPS_STATE_MAP[stateFips]
FipsStateLookup(stateFips) ==
  IF \E e \in FIPS_STATE_MAP : e[1] = stateFips
  THEN JSString((CHOOSE e \in FIPS_STATE_MAP : e[1] = stateFips)[2])
  ELSE JSUndefined

\* ChoroplethMap.getFeatureId: properties.GEOID
getFeatureId(feature) == feature.GEOID

\* ChoroplethMap.getDistrictCode
getDistrictCode(feature) ==
  IF FipsStateLookup(SubSeq(getFeatureId(feature), 1, 2)).type = "undefined" THEN JSNull
  ELSE JSString(FipsStateLookup(SubSeq(getFeatureId(feature), 1, 2)).chars \o <<"-">>
                  \o SubSeq(getFeatureId(feature), 3, Len(getFeatureId(feature))))

\* ChoroplethMap.zoomToState without the test for features of the state
zoomToState_EmptyStateZoomed(z, stateAbbr) ==
  IF StateFipsLookup(stateAbbr).type = "undefined" \/ ~z.districtMap.geojsonData \/ ~z.districtMap.zoom
  THEN z
  ELSE [z EXCEPT !.districtMap.currentZoomState = JSString(stateAbbr),
                 !.timers = Append(@, StateFipsLookup(stateAbbr).chars)]

\* ChoroplethMap.zoomToState: the zoom state is set and the outline is left
\* to a timer of 100 ms
zoomToState(z, stateAbbr) ==
  IF StateFipsLookup(stateAbbr).type = "undefined" \/ ~z.districtMap.geojsonData \/ ~z.districtMap.zoom
  THEN z
  ELSE IF {f \in MapFeatures : f.STATEFP = StateFipsLookup(stateAbbr).chars} = {} THEN z
  ELSE [z EXCEPT !.districtMap.currentZoomState = JSString(stateAbbr),
                 !.timers = Append(@, StateFipsLookup(stateAbbr).chars)]

\* ChoroplethMap.renderStateOutline for the features of one state: none for
\* Alaska and Hawaii, else the group of the state's outline
renderStateOutline(z, stateFips) ==
  IF stateFips \in {<<"0", "2">>, <<"1", "5">>}
  THEN [z EXCEPT !.districtMap.stateOutlineGroup = JSNull]
  ELSE [z EXCEPT !.districtMap.stateOutlineGroup = JSString(stateFips)]

\* ChoroplethMap.resetZoom
resetZoom(z) ==
  IF ~z.districtMap.zoom THEN z
  ELSE [z EXCEPT !.districtMap.currentZoomState = JSNull,
                 !.districtMap.stateOutlineGroup = JSNull,
                 !.districtMap.highlighted = JSNull]

\* ChoroplethMap.highlightDistrict: the path of the district's GEOID, if the
\* map has one, is the highlighted one
highlightDistrict(z, districtCode) ==
  IF districtCode = <<>> \/ Len(split(districtCode, "-")) # 2 THEN z
  ELSE IF StateFipsLookup(split(districtCode, "-")[1]).type = "undefined" THEN z
  ELSE LET g == StateFipsLookup(split(districtCode, "-")[1]).chars
                  \o padStart(split(districtCode, "-")[2], 2, "0")
       IN  [z EXCEPT !.districtMap.highlighted =
              IF z.districtMap.geojsonData /\ \E f \in MapFeatures : getFeatureId(f) = g
              THEN JSString(g) ELSE JSNull]

\* StateSelector.selectState, with the onStateSelect of initStateSelector
selectState(z, stateAbbr) ==
  zoomToState([z EXCEPT !.stateSelector.selectedState = JSString(stateAbbr),
                        !.stateSelector.selectedDistrict = JSNull],
              stateAbbr)

\* StateSelector.selectDistrict, with the onDistrictSelect of
\* initStateSelector
selectDistrict(z, districtCode) ==
  highlightDistrict([z EXCEPT !.stateSelector.selectedDistrict = JSString(districtCode)],
                    districtCode)

\* StateSelector.selectDistrictFromMap
selectDistrictFromMap(z, districtCode) ==
  LET stateAbbr == split(districtCode, "-")[1]
      selected == IF z.stateSelector.selectedState # JSString(stateAbbr)
                  THEN selectState(z, stateAbbr) ELSE z
  IN  [selected EXCEPT !.stateSelector.selectedDistrict = JSString(districtCode)]

\* StateSelector.resetSelection, with the onReset of initStateSelector
resetSelection(z) ==
  resetZoom([z EXCEPT !.stateSelector.selectedState = JSNull,
                      !.stateSelector.selectedDistrict = JSNull])

\* the click handler of a district polygon with the test of the zoom state
\* left out
ClickFeature_ZoomIgnored(z, feature) ==
  LET stateAbbr == FipsStateLookup(feature.STATEFP)
  IN  IF z.districtMap.onStateClick /\ stateAbbr.type = "string"
      THEN selectState([z EXCEPT !.lastClick.stateCalls = @ + 1], stateAbbr.chars)
      ELSE z

\* the click handler of a district polygon, with the handlers
\* initStateSelector gives the map
ClickFeature(z, feature) ==
  LET stateAbbr == FipsStateLookup(feature.STATEFP)
  IN  IF z.districtMap.onStateClick /\ stateAbbr.type = "string"
         /\ z.districtMap.currentZoomState = JSNull
      THEN selectState([z EXCEPT !.lastClick.stateCalls = @ + 1], stateAbbr.chars)
      ELSE IF z.districtMap.onDistrictClick /\ getDistrictCode(feature).type = "string"
      THEN highlightDistrict(
             selectDistrictFromMap([z EXCEPT !.lastClick.districtCalls = @ + 1],
                                   getDistrictCode(feature).chars),
             getDistrictCode(feature).chars)
      ELSE z

\* no polygon clicked yet
NoClick ==
  [clicked |-> FALSE, zoomBefore |-> JSNull, handlerSet |-> FALSE, STATEFP |-> <<>>,
   stateCalls |-> 0, districtCalls |-> 0]

CommitZoom(z) ==
  /\ districtMap' = z.districtMap
  /\ stateSelector' = z.stateSelector
  /\ timers' = z.timers
  /\ lastClick' = z.lastClick

\* renderMaps has returned: the map is built, its districts file loaded or
\* not (init then shows its error and returns before setupZoom)
InitZoom ==
  /\ \E loaded \in BOOLEAN :
       districtMap = [geojsonData |-> loaded, zoom |-> loaded, currentZoomState |-> JSNull,
                      stateOutlineGroup |-> JSNull, highlighted |-> JSNull,
                      onStateClick |-> FALSE, onDistrictClick |-> FALSE]
  /\ stateSelector = [selectedState |-> JSNull, selectedDistrict |-> JSNull]
  /\ timers = <<>>
  /\ lastClick = NoClick
  /\ zoomPc = "rendered"
  /\ interactions = 0
  /\ IdleExceptZoom

\* initStateSelector: the selector is built and the map gets its two click
\* handlers
initStateSelector ==
  /\ zoomPc = "rendered"
  /\ zoomPc' = "ready"
  /\ districtMap' = [districtMap EXCEPT !.onStateClick = TRUE, !.onDistrictClick = TRUE]
  /\ UNCHANGED <<stateSelector, timers, lastClick, interactions, exceptZoom>>

\* the visitor picks a state in the selector
chooseState ==
  /\ zoomPc = "ready"
  /\ interactions < MaxInteractions
  /\ Len(timers) < MaxTimers
  /\ \E stateAbbr \in SelectorStates : CommitZoom(selectState(ZoomWorld, stateAbbr))
  /\ interactions' = interactions + 1
  /\ UNCHANGED <<zoomPc, exceptZoom>>

\* the visitor clicks a district of the selected state in the list
chooseDistrict ==
  /\ zoomPc = "ready"
  /\ interactions < MaxInteractions
  /\ \E d \in SelectorDistricts :
       /\ stateSelector.selectedState = JSString(d.state)
       /\ CommitZoom(selectDistrict(ZoomWorld, d.district))
  /\ interactions' = interactions + 1
  /\ UNCHANGED <<zoomPc, exceptZoom>>

\* the visitor clicks "View All" (shown once a state is selected)
clickReset ==
  /\ zoomPc = "ready"
  /\ interactions < MaxInteractions
  /\ stateSelector.selectedState # JSNull
  /\ CommitZoom(resetSelection(ZoomWorld))
  /\ interactions' = interactions + 1
  /\ UNCHANGED <<zoomPc, exceptZoom>>

\* the visitor clicks a district polygon of the map
clickFeature ==
  /\ districtMap.geojsonData
  /\ interactions < MaxInteractions
  /\ Len(timers) < MaxTimers
  /\ \E feature \in MapFeatures :
       CommitZoom(ClickFeature(
         [ZoomWorld EXCEPT !.lastClick =
            [clicked |-> TRUE, zoomBefore |-> districtMap.currentZoomState,
             handlerSet |-> districtMap.onStateClick, STATEFP |-> feature.STATEFP,
             stateCalls |-> 0, districtCalls |-> 0]],
         feature))
  /\ interactions' = interactions + 1
  /\ UNCHANGED <<zoomPc, exceptZoom>>

\* the oldest timer of zoomToState fires: renderStateOutline
outlineTimer ==
  /\ timers # <<>>
  /\ CommitZoom(renderStateOutline([ZoomWorld EXCEPT !.timers = Tail(@)], Head(timers)))
  /\ UNCHANGED <<zoomPc, interactions, exceptZoom>>

NextZoom ==
  \/ initStateSelector
  \/ chooseState
  \/ chooseDistrict
  \/ clickReset
  \/ clickFeature
  \/ outlineTimer

SpecZoom == InitZoom /\ [][NextZoom]_vars

\* =================================================== science: data and reports
\* NASAScienceDashboard.loadData, processData and getSummaryStats, and the
\* district list of the StateSelector.  The state files, the map data, the
\* hover texts and the averages are not kept: no step below reads them.
MaxSciRows == 2
MaxYearColumns == 2

\* columns a spending file may carry next to state and district; the last
\* one does not name a four-digit year
SciYearColumns ==
  {<<"f", "y", "_", "2", "0", "2", "1", "_", "o", "b", "l", "i", "g", "a", "t", "i", "o", "n", "s">>, <<"f", "y", "_", "2", "0", "2", "3", "_", "o", "b", "l", "i", "g", "a", "t", "i", "o", "n", "s">>, <<"f", "y", "_", "2", "0", "2", "4", "_", "o", "b", "l", "i", "g", "a", "t", "i", "o", "n", "s">>,
   <<"f", "y", "_", "2", "0", "2", "5", "_", "o", "b", "l", "i", "g", "a", "t", "i", "o", "n", "s">>, <<"f", "y", "_", "2", "4", "_", "o", "b", "l", "i", "g", "a", "t", "i", "o", "n", "s">>}

SciHeaders == {H \in SUBSET SciYearColumns : Cardinality(H) <= MaxYearColumns}

\* cells of an obligations column: empty, just below and at the threshold
SciCells == {<<>>, <<"4", "9", "9", "9", "9">>, <<"5", "0", "0", "0", "0">>}

SciDistricts ==
  {[state |-> <<"C", "A">>, district |-> <<"C", "A", "-", "3", "7">>],
   [state |-> <<"C", "A">>, district |-> <<"C", "A", "-", "1", "2">>],
   [state |-> <<"Z", "Z">>, district |-> <<"Z", "Z", "-", "1">>]}

\* the objects parseCSV returns for a file with the columns H
SciRawRows(H) ==
  {[c \in H \cup {<<"s", "t", "a", "t", "e">>, <<"d", "i", "s", "t", "r", "i", "c", "t">>} |->
      IF c = <<"s", "t", "a", "t", "e">> THEN p.state
      ELSE IF c = <<"d", "i", "s", "t", "r", "i", "c", "t">> THEN p.district
      ELSE f[c]] : p \in SciDistricts, f \in [H -> SciCells]}

SciCsvs == UNION {SeqsUpTo(SciRawRows(H), MaxSciRows) : H \in SciHeaders}

\* /^fy_\d{4}_obligations$/.test(key)
IsFiscalYearKey(key) ==
  /\ Len(key) = 19
  /\ SubSeq(key, 1, 3) = <<"f", "y", "_">>
  /\ \A i \in 4..7 : IsDigit(key[i])
  /\ SubSeq(key, 8, 19) = <<"_", "o", "b", "l", "i", "g", "a", "t", "i", "o", "n", "s">>

\* a set of years, newest first
RECURSIVE SortYearsDescending(_)
SortYearsDescending(S) ==
  IF S = {} THEN <<>>
  ELSE <<Max(S)>> \o SortYearsDescending(S \ {Max(S)})

extractFiscalYears(rawRow) ==
  SortYearsDescending(
    {parseInt(SubSeq(key, 4, 7)).int :
       key \in {k \in DOMAIN rawRow : IsFiscalYearKey(k)}})

\* parseFloat(cell) || 0
ParseFloatOrZero(cell) ==
  LET parsed == parseFloat(cell) IN IF parsed.nan THEN Zero ELSE parsed

\* the district objects of processData: the values of the detected years
\* under fy<year>, and the rows without a GEOID dropped
processDistrictData(rawRows, fiscalYears) ==
  LET years == {fiscalYears[i] : i \in 1..Len(fiscalYears)}
      Processed(rawRow) ==
        [state |-> rawRow[<<"s", "t", "a", "t", "e">>],
         district |-> rawRow[<<"d", "i", "s", "t", "r", "i", "c", "t">>],
         fy |-> [yr \in years |->
                   ParseFloatOrZero(rawRow[<<"f", "y", "_">> \o NatToString(yr) \o <<"_", "o", "b", "l", "i", "g", "a", "t", "i", "o", "n", "s">>])],
         geoid |-> getGeoidFromDistrict(JSString(rawRow[<<"d", "i", "s", "t", "r", "i", "c", "t">>]))]
  IN  SelectSeq([i \in 1..Len(rawRows) |-> Processed(rawRows[i])],
                LAMBDA d : d.geoid # JSNull)

\* d[`fy${year}`] >= threshold: false for a property the object lacks
\* (undefined >= n)
FyAtLeast(d, yr, threshold) ==
  yr \in DOMAIN d.fy /\ ~NumLess(d.fy[yr], threshold)

minSpending == Num(50000)

\* getSummaryStats: the districts at or above the threshold in any detected
\* fiscal year, and their number
getSummaryStats(dash) ==
  LET districtsWithSpending ==
        SelectSeq(dash.districtData,
                  LAMBDA d : \E i \in 1..Len(dash.fiscalYears) :
                               FyAtLeast(d, dash.fiscalYears[i], minSpending))
  IN  [districtsWithSpending |-> districtsWithSpending,
       districtsReached |-> Len(districtsWithSpending)]

hasSufficientData(selector, d) ==
  \/ FyAtLeast(d, 2024, selector.minSpending)
  \/ FyAtLeast(d, 2023, selector.minSpending)
  \/ FyAtLeast(d, 2022, selector.minSpending)

\* parseInt(d.district.split('-')[1], 10) || 0
DistrictNumber(d) ==
  LET parsed == parseInt(split(d.district, "-")[2])
  IN  IF parsed.nan THEN 0 ELSE parsed.int

\* [...districts].sort((a, b) => numA - numB): ascending and stable
RECURSIVE SortDistricts(_, _)
SortDistricts(districts, n) ==
  IF n = 0 THEN <<>>
  ELSE
    LET sorted == SortDistricts(districts, n - 1)
        x == districts[n]
        later == {i \in 1..Len(sorted) : DistrictNumber(x) < DistrictNumber(sorted[i])}
        at == IF later = {} THEN Len(sorted) + 1
              ELSE CHOOSE i \in later : \A j \in later : i <= j
    IN  SubSeq(sorted, 1, at - 1) \o <<x>> \o SubSeq(sorted, at, Len(sorted))

\* renderDistrictItem: the district and whether its item carries the
\* download link or the words "Insufficient data"
renderDistrictItem(selector, d) ==
  [district |-> d, download |-> hasSufficientData(selector, d)]

\* renderStateDetails: a state whose only district is at large shows the
\* statewide download alone, any other state one item per district
renderStateDetails(selector, districts) ==
  LET isAtLargeOnly ==
        Len(districts) = 1 /\ split(districts[1].district, "-")[2] = <<"0", "0">>
      sortedDistricts == SortDistricts(districts, Len(districts))
  IN  IF isAtLargeOnly THEN <<>>
      ELSE [i \in 1..Len(sortedDistricts) |->
              renderDistrictItem(selector, sortedDistricts[i])]

DistrictsOfState(selector, stateAbbr) ==
  LET groups == selector.districtsByState
      found == {i \in 1..Len(groups) : groups[i].key = stateAbbr}
  IN  IF found = {} THEN <<>> ELSE groups[CHOOSE i \in found : TRUE].items

NewDashboard == [fiscalYears |-> <<>>, districtData |-> <<>>]
NoStats == [districtsWithSpending |-> <<>>, districtsReached |-> 0]
NewSelector ==
  [districtsByState |-> <<>>, minSpending |-> minSpending,
   selectedState |-> JSNull, items |-> <<>>]

InitSci ==
  /\ IdleExceptSci
  /\ sciCsv \in SciCsvs
  /\ sciDashboard = NewDashboard
  /\ sciStats = NoStats
  /\ sciSelector = NewSelector
  /\ sciPc = "start"

\* loadData: the fiscal years come from the first row, if there is one
sciLoadData ==
  /\ sciPc = "start"
  /\ LET fiscalYears ==
           IF Len(sciCsv) > 0 THEN extractFiscalYears(sciCsv[1]) ELSE <<>>
     IN  sciDashboard' = [fiscalYears |-> fiscalYears,
                          districtData |-> processDistrictData(sciCsv, fiscalYears)]
  /\ sciPc' = "loaded"
  /\ UNCHANGED <<sciCsv, sciStats, sciSelector, exceptSci>>

\* renderValueBoxes
sciRenderValueBoxes ==
  /\ sciPc = "loaded"
  /\ sciStats' = getSummaryStats(sciDashboard)
  /\ sciPc' = "boxes"
  /\ UNCHANGED <<sciCsv, sciDashboard, sciSelector, exceptSci>>

\* initStateSelector: new StateSelector({minSpending}) and init(districtData)
sciInitStateSelector ==
  /\ sciPc = "boxes"
  /\ sciSelector' = [NewSelector EXCEPT
                       !.districtsByState = groupBy(sciDashboard.districtData, "state")]
  /\ sciPc' = "ready"
  /\ UNCHANGED <<sciCsv, sciDashboard, sciStats, exceptSci>>

\* the visitor picks a state of the drop-down: selectState
sciSelectState ==
  /\ sciPc = "ready"
  /\ \E g \in 1..Len(sciSelector.districtsByState) :
       LET stateAbbr == sciSelector.districtsByState[g].key
       IN  sciSelector' =
             [sciSelector EXCEPT
                !.selectedState = JSString(stateAbbr),
                !.items = renderStateDetails(sciSelector,
                                             DistrictsOfState(sciSelector, stateAbbr))]
  /\ UNCHANGED <<sciCsv, sciDashboard, sciStats, sciPc, exceptSci>>

NextSci ==
  \/ sciLoadData
  \/ sciRenderValueBoxes
  \/ sciInitStateSelector
  \/ sciSelectState

SpecSci == InitSci /\ [][NextSci]_vars

\* ===================================================================== claims
\* What the claims call a valid district string: "SS-DD", SS a known
\* state/territory abbreviation in any letter case, DD a decimal integer in
\* 0..99 or "ZZ" (read in any letter case, like the prefix).
AllDigits(s) == s # <<>> /\ \A i \in 1..Len(s) : IsDigit(s[i])

KnownState(ss) == \E e \in STATE_FIPS_MAP : e[1] = toUpperCase(ss)

FipsOf(ss) == (CHOOSE e \in STATE_FIPS_MAP : e[1] = toUpperCase(ss))[2]

RECURSIVE DecimalValue(_)
DecimalValue(s) ==
  IF s = <<>> THEN 0 ELSE DigitValue(Head(s)) * (10 ^ (Len(s) - 1)) + DecimalValue(Tail(s))

SeparatorCount(s) == Cardinality({i \in 1..Len(s) : s[i] = "-"})

SeparatorAt(s) == CHOOSE i \in 1..Len(s) : s[i] = "-"

PrefixOf(s) == SubSeq(s, 1, SeparatorAt(s) - 1)

SuffixOf(s) == SubSeq(s, SeparatorAt(s) + 1, Len(s))

IsZZ(dd) == Len(dd) = 2 /\ \A i \in 1..2 : dd[i] \in {"Z", "z"}

ValidDistrict(d) ==
  /\ d.type = "string"
  /\ SeparatorCount(d.chars) = 1
  /\ KnownState(PrefixOf(d.chars))
  /\ \/ IsZZ(SuffixOf(d.chars))
     \/ AllDigits(SuffixOf(d.chars)) /\ DecimalValue(SuffixOf(d.chars)) <= 99

\* C1: getGeoidFromDistrict returns a 4-character string exactly for the valid
\* district strings and null for every other input (non-string, no separator,
\* several separators, unknown state, non-integer or out-of-range suffix).
C1_GeoidFourCharsOrNull ==
  geoidPc = "returned" =>
    IF ValidDistrict(districtStr)
    THEN geoid.type = "string" /\ Len(geoid.chars) = 4
    ELSE geoid = JSNull

\* C2: for every valid district string the result is the state's 2-digit FIPS
\* code followed by the suffix: "ZZ" kept, any other suffix as its integer
\* value in two digits; "CA-37" gives "0637", "CA-0" gives "0600" and "ZZ-ZZ"
\* gives null.
ExpectedSuffix(dd) ==
  IF IsZZ(dd) THEN <<"Z", "Z">>
  ELSE <<Digits[(DecimalValue(dd) \div 10) + 1], Digits[(DecimalValue(dd) % 10) + 1]>>

C2_GeoidIsFipsPlusSuffix ==
  geoidPc = "returned" =>
    /\ ValidDistrict(districtStr) =>
         geoid = JSString(FipsOf(PrefixOf(districtStr.chars))
                            \o ExpectedSuffix(SuffixOf(districtStr.chars)))
    /\ districtStr = JSString(<<"C", "A", "-", "3", "7">>)
         => geoid = JSString(<<"0", "6", "3", "7">>)
    /\ districtStr = JSString(<<"C", "A", "-", "0">>)
         => geoid = JSString(<<"0", "6", "0", "0">>)
    /\ districtStr = JSString(<<"Z", "Z", "-", "Z", "Z">>) => geoid = JSNull

C2_Witness ==
  /\ geoidPc = "returned"
  /\ districtStr = JSString(<<"C", "A", "-", "3", "7">>)
  /\ geoid = JSString(<<"0", "6", "3", "7">>)

\* C3: parseCurrency strips "$", "," and white space; when what is left is
\* empty or is not a decimal number (an optional sign, digits, an optional
\* point, digits, and nothing else) it returns null, never 0 and never the
\* value of a prefix; otherwise it returns a number.
IsDecimalNumber(s) ==
  LET body == IF s # <<>> /\ Head(s) \in {"+", "-"} THEN Tail(s) ELSE s
      points == {i \in 1..Len(body) : body[i] = "."}
  IN  /\ \A i \in 1..Len(body) : IsDigit(body[i]) \/ body[i] = "."
      /\ Cardinality(points) <= 1
      /\ \E i \in 1..Len(body) : IsDigit(body[i])

CleanedRemainder(s) ==
  SelectSeq(s, LAMBDA c : c # "$" /\ c # "," /\ c # " ")

C3_CurrencyNullUnlessDecimal ==
  (currencyPc = "returned" /\ value.type = "string") =>
    IF IsDecimalNumber(CleanedRemainder(value.chars))
    THEN num.type = "number" /\ ~num.nan
    ELSE num = JSNull

\* ------------------------------------------------ the cancellations pipeline
TotalWord == <<"t", "o", "t", "a", "l">>

IsTotalRow(row) ==
  toLowerCase(row.District) = TotalWord \/ toLowerCase(row.EndDate) = TotalWord

\* C4: no row whose district or end-date field reads "Total", in any letter
\* case, is in cleanedData, and so none is counted, summed or listed: no row
\* of the district table or of the full listing carries the label "Total".
C4_NoTotalRowInCleanedData ==
  /\ \A i \in 1..Len(cleanedData) : ~IsTotalRow(cleanedData[i])
  /\ dashPc = "rendered" =>
       /\ \A i \in 1..Len(districtsTable) :
            toLowerCase(districtsTable[i].district) # TotalWord
       /\ \A i \in 1..Len(contractsTable) :
            /\ toLowerCase(contractsTable[i].district) # TotalWord
            /\ toLowerCase(contractsTable[i].endDate) # TotalWord

\* the CSV fields of a cleaned row
RowOf(c) == Row(c.District, c.Recipient, c.AwardID, c.EndDate, c.AwardAmount)

\* C5: cleanedData is the subsequence, in input order, of the rows of rawData
\* that are not Total rows and whose amount parses to a number: a row whose
\* amount does not parse is dropped, not kept with amount 0, and the other
\* rows are kept whatever it was.
C5_CleanedDataIsParsedSubsequence ==
  dashPc # "constructed" =>
    LET kept == SelectSeq(rawData,
                  LAMBDA row : /\ ~IsTotalRow(row)
                               /\ parseCurrency(JSString(row.AwardAmount)) # JSNull)
    IN  /\ Len(cleanedData) = Len(kept)
        /\ \A i \in 1..Len(cleanedData) :
             /\ RowOf(cleanedData[i]) = kept[i]
             /\ cleanedData[i].totalObligations = parseCurrency(JSString(kept[i].AwardAmount))

\* the positions of the cleaned rows that carry a key
Carrying(key, k) == {i \in 1..Len(cleanedData) : cleanedData[i][key] = k}

KeysOf(key) == {cleanedData[i][key] : i \in 1..Len(cleanedData)}

Geoids == {g.chars : g \in KeysOf("geoid") \ {JSNull}}

RECURSIVE SumOfAmounts(_)
SumOfAmounts(rows) ==
  IF rows = <<>> THEN Zero
  ELSE NumAdd(SumOfAmounts(SubSeq(rows, 1, Len(rows) - 1)),
              rows[Len(rows)].totalObligations)

TotalOf(key, k) == SumOfAmounts(SelectSeq(cleanedData, LAMBDA row : row[key] = k))

\* what the pipeline holds for a GEOID
GeoidBucket(g) == [count |-> districtCounts[g], hover |-> hoverInfo[g]]

\* the counts of the three groupings and the totals of the two tables
CountsAndTableTotals ==
  /\ DOMAIN districtCounts = Geoids
  /\ \A g \in Geoids :
       /\ GeoidBucket(g).count = Cardinality(Carrying("geoid", JSString(g)))
       /\ GeoidBucket(g).hover.header = GeoidBucket(g).count
  /\ Len(districtsTable) = Cardinality(KeysOf("District"))
  /\ \A k \in KeysOf("District") :
       \E r \in 1..Len(districtsTable) :
         /\ districtsTable[r].district = k
         /\ districtsTable[r].contractCount = Cardinality(Carrying("District", k))
         /\ districtsTable[r].rawObligations = TotalOf("District", k)
         /\ districtsTable[r].totalObligations = formatCurrency(TotalOf("District", k))
  /\ Len(recipientsTable) = Cardinality(KeysOf("Recipient"))
  /\ \A k \in KeysOf("Recipient") :
       \E r \in 1..Len(recipientsTable) :
         /\ recipientsTable[r].recipient = k
         /\ recipientsTable[r].contractCount = Cardinality(Carrying("Recipient", k))
         /\ recipientsTable[r].totalObligations = formatCurrency(TotalOf("Recipient", k))

\* the two CA-37 awards of $1,000,000 and $500,000
TwoAwards ==
  << Row(<<"C", "A", "-", "3", "7">>, <<"A", "c", "m", "e">>, <<"A", "1">>, <<"2", "0", "2", "5">>, <<"$", "1", ",", "0", "0", "0", ",", "0", "0", "0">>),
     Row(<<"C", "A", "-", "3", "7">>, <<"B", "e", "t", "a">>, <<"A", "2">>, <<"2", "0", "2", "5">>, <<"$", "5", "0", "0", ",", "0", "0", "0">>) >>

InputOrders(n) ==
  {f \in [1..n -> 1..n] : \A i, j \in 1..n : f[i] = f[j] => i = j}

Permuted(rows, f) == [i \in 1..Len(rows) |-> rows[f[i]]]

MaxContractsOf(cleaned) ==
  LET groups == DistrictGroups(cleaned) IN CalcMaxContracts(groups, Len(groups))

\* a table as a mapping: the set of its (key, field) pairs
TableMap(table, key, field) ==
  {<<table[r][key], table[r][field]>> : r \in 1..Len(table)}

\* the per-key counts and the maximum count are those of the loaded input
SameCounts(cleaned) ==
  /\ CalcDistrictCounts(cleaned) = districtCounts
  /\ MaxContractsOf(cleaned) = maxContracts
  /\ TableMap(DistrictData(cleaned), "district", "contractCount")
       = TableMap(districtsTable, "district", "contractCount")
  /\ TableMap(RecipientData(cleaned), "recipient", "contractCount")
       = TableMap(recipientsTable, "recipient", "contractCount")

\* the per-key sums are those of the loaded input
SameSums(cleaned) ==
  /\ TableMap(DistrictData(cleaned), "district", "rawObligations")
       = TableMap(districtsTable, "district", "rawObligations")
  /\ TableMap(DistrictData(cleaned), "district", "totalObligations")
       = TableMap(districtsTable, "district", "totalObligations")
  /\ TableMap(RecipientData(cleaned), "recipient", "totalObligations")
       = TableMap(recipientsTable, "recipient", "totalObligations")

\* C8 as stated: for every permutation of the input rows the pipeline gives
\* the same per-key counts, the same per-key sums and the same maximum count.
C8_AggregationOrderIndependent ==
  dashPc = "rendered" =>
    \A f \in InputOrders(Len(rawData)) :
      LET cleaned == processData(Permuted(rawData, f))
      IN  SameCounts(cleaned) /\ SameSums(cleaned)

WholeDollars ==
  \A i \in 1..Len(cleanedData) :
    \A b \in cleanedData[i].totalObligations.bits : b >= 0

\* C8, amended: for every permutation of the input rows the per-key counts
\* and the maximum count are the same, and the per-key sums are the same when
\* every amount is a whole number of dollars (sums of amounts with cents are
\* rounded at each addition and can differ with the order).
C8_CountsAndWholeDollarSumsOrderIndependent ==
  dashPc = "rendered" =>
    \A f \in InputOrders(Len(rawData)) :
      LET cleaned == processData(Permuted(rawData, f))
      IN  SameCounts(cleaned) /\ (WholeDollars => SameSums(cleaned))

C8_Witness ==
  /\ dashPc = "rendered"
  /\ Len(cleanedData) = 3
  /\ WholeDollars
  /\ Cardinality(Geoids) = 2
  /\ maxContracts = 2
  /\ cleanedData[1].geoid # cleanedData[2].geoid
  /\ Len(districtsTable) = 2

\* C9: maxContracts is the largest number of cleaned rows carrying one GEOID,
\* or 1 when no cleaned row has a GEOID (the empty input included); it is a
\* number and at least 1, and it is the maxValue the map is given.
C9_MaxContractsIsMaxCountOrOne ==
  /\ maxContracts \in Nat
  /\ maxContracts >= 1
  /\ maxContracts =
       IF Geoids = {} THEN 1
       ELSE Max({Cardinality(Carrying("geoid", JSString(g))) : g \in Geoids})
  /\ map # JSNull => map.maxValue = maxContracts

C9_Witness ==
  /\ dashPc = "mapped"
  /\ cleanedData # <<>>
  /\ Geoids = {}
  /\ map.maxValue = 1

\* the order of the UTF-16 code units of the characters used
CodeUnitOrder ==
  <<" ", "$", ",", "-", ".", "/">> \o Digits \o UpperLetters \o LowerLetters

CodeUnit(c) == CHOOSE i \in 1..Len(CodeUnitOrder) : CodeUnitOrder[i] = c

\* s < t, as JavaScript compares strings
RECURSIVE StringLess(_, _)
StringLess(s, t) ==
  IF t = <<>> THEN FALSE
  ELSE IF s = <<>> THEN TRUE
  ELSE IF Head(s) = Head(t) THEN StringLess(Tail(s), Tail(t))
  ELSE CodeUnit(Head(s)) < CodeUnit(Head(t))

KeyOrder(table, key) == [r \in 1..Len(table) |-> table[r][key]]

\* C10: the district table is in descending order of total and the recipient
\* table in descending order of count, rows with equal sort value in
\* ascending order of their key, and both tables list their keys in the same
\* order for every permutation of the input rows.
C10_TablesOrderedWithKeyTieBreak ==
  dashPc = "rendered" =>
    /\ \A r, q \in 1..Len(districtsTable) :
         r < q =>
           \/ NumLess(districtsTable[q].rawObligations, districtsTable[r].rawObligations)
           \/ /\ districtsTable[q].rawObligations = districtsTable[r].rawObligations
              /\ StringLess(districtsTable[r].district, districtsTable[q].district)
    /\ \A r, q \in 1..Len(recipientsTable) :
         r < q =>
           \/ recipientsTable[q].contractCount < recipientsTable[r].contractCount
           \/ /\ recipientsTable[q].contractCount = recipientsTable[r].contractCount
              /\ StringLess(recipientsTable[r].recipient, recipientsTable[q].recipient)
    /\ \A f \in InputOrders(Len(rawData)) :
         LET cleaned == processData(Permuted(rawData, f))
         IN  /\ KeyOrder(DistrictData(cleaned), "district")
                  = KeyOrder(districtsTable, "district")
             /\ KeyOrder(RecipientData(cleaned), "recipient")
                  = KeyOrder(recipientsTable, "recipient")

\* s begins with p
StartsWith(s, p) == Len(p) <= Len(s) /\ SubSeq(s, 1, Len(p)) = p

\* the text of the record lines of the given rows, one after the other
RECURSIVE RecordLines(_)
RecordLines(rows) ==
  IF rows = <<>> THEN <<>>
  ELSE (IF Len(rows) = 1 THEN <<>>
        ELSE RecordLines(SubSeq(rows, 1, Len(rows) - 1)) \o <<"<", "b", "r", ">">>)
       \o <<"<", "b", ">">> \o rows[Len(rows)].Recipient \o <<"<", "/", "b", ">", "<", "b", "r", ">">>
       \o formatCurrency(rows[Len(rows)].totalObligations)
       \o <<" ", "(", "A", "w", "a", "r", "d", " ", "I", "D", ":", " ">> \o rows[Len(rows)].AwardID \o <<")">>

\* C11: hoverInfo and districtCounts have the same keys; the hover text of a
\* GEOID starts with the bold header "Number of awards: N", N being the
\* GEOID's count in districtCounts, and goes on, after two line breaks, with
\* exactly N record lines, one per cleaned row carrying the GEOID, in input
\* order, each with the row's recipient, formatted amount and award id.
C11_HoverHeaderAndLinesMatchCount ==
  /\ DOMAIN hoverInfo = DOMAIN districtCounts
  /\ \A g \in DOMAIN hoverInfo :
       LET N == districtCounts[g]
           rows == SelectSeq(cleanedData, LAMBDA row : row.geoid = JSString(g))
           header == <<"<", "b", ">", "N", "u", "m", "b", "e", "r", " ", "o", "f", " ", "a", "w", "a", "r", "d", "s", ":", " ">> \o NatToString(N) \o <<"<", "/", "b", ">">>
       IN  /\ Len(rows) = N
           /\ StartsWith(hoverInfo[g].html, header)
           /\ hoverInfo[g].html = header \o <<"<", "b", "r", ">", "<", "b", "r", ">">> \o RecordLines(rows)
  /\ map # JSNull => map.hoverInfo = hoverInfo /\ map.dataMap = districtCounts

C11_Witness ==
  /\ dashPc = "mapped"
  /\ rawData = TwoAwards
  /\ districtCounts[<<"0", "6", "3", "7">>] = 2
  /\ StartsWith(map.hoverInfo[<<"0", "6", "3", "7">>].html, <<"<", "b", ">", "N", "u", "m", "b", "e", "r", " ", "o", "f", " ", "a", "w", "a", "r", "d", "s", ":", " ", "2", "<", "/", "b", ">", "<", "b", "r", ">", "<", "b", "r", ">", "<", "b", ">", "A", "c", "m", "e", "<", "/", "b", ">">>)

\* ------------------------------------------------------ the stepped colours
Stepped == {scale \in ColorScales : SteppedScale(scale) # JSNull}

\* the value render passes for a district: the data map's, or 0
Passed(g) == ValueOf(dataMap, g)

IsPositive(v) == LessThan(Zero, v)

IsFinite(v) == ~v.nan /\ v # JSInfinity

\* the steps whose threshold strictly exceeds a value
Exceeding(steps, v) == {i \in 1..Len(steps) : LessThan(v, steps[i].threshold)}

Place(scale, color) ==
  IF color = COLORS_choropleth[scale].zero THEN 0
  ELSE CHOOSE i \in 1..Len(SteppedScale(scale)) : SteppedScale(scale)[i].color = color

\* C13: under a stepped scale, of two districts the one with the smaller or
\* equal value has a colour that comes no later in the scale's list.
C13_SteppedColorMonotone ==
  colorScale \in Stepped =>
    \A g, h \in DOMAIN fill :
      ~LessThan(Passed(h), Passed(g)) =>
        Place(colorScale, fill[g]) <= Place(colorScale, fill[h])

C13_Witness ==
  /\ colorScale = "science"
  /\ Passed(<<"0", "6", "3", "7">>) = Num(4999999)
  /\ Passed(<<"1", "0", "0", "0">>) = Num(5000000)
  /\ Place(colorScale, fill[<<"0", "6", "3", "7">>]) = 2
  /\ Place(colorScale, fill[<<"1", "0", "0", "0">>]) = 3

ChannelsOf(hex) == hex_to_rgb(hex)

Between(x, a, b) == (a <= x /\ x <= b) \/ (b <= x /\ x <= a)

\* C15: get_choropleth_color gives the zero colour for count <= 0, the one
\* colour for count = 1 and, for a larger count, whenever max_count <= 1;
\* otherwise every channel is an integer nearest to the interpolation
\* one + (max - one) * t, t = (count - 1) / (max_count - 1) kept within 0..1:
\* it lies between the two anchors, and count >= max_count gives the max
\* colour exactly.
C15_ContinuousScaleInterpolates ==
  scalePc = "returned" =>
    LET rgb == ChannelsOf(scale_color)
        one == <<209, 150, 144>>
        top == <<156, 26, 14>>
        k == IF award_count - 1 > max_count - 1 THEN max_count - 1 ELSE award_count - 1
    IN  /\ Len(scale_color) = 7
        /\ award_count <= 0 => rgb = <<255, 255, 255>>
        /\ (award_count = 1 \/ (award_count > 0 /\ max_count <= 1)) => rgb = one
        /\ (award_count > 1 /\ max_count > 1) =>
             /\ \A i \in 1..3 :
                  /\ Between(rgb[i], one[i], top[i])
                  /\ LET twice == 2 * (rgb[i] * (max_count - 1)
                                        - (one[i] * (max_count - 1) + (top[i] - one[i]) * k))
                     IN  twice <= max_count - 1 /\ 0 - twice <= max_count - 1
             /\ award_count >= max_count => rgb = top

C15_Witness ==
  /\ scalePc = "returned"
  /\ award_count = 2
  /\ max_count = 21
  /\ scale_color = <<"#", "c", "e", "9", "0", "8", "a">>

\* ------------------------------------------------------------------ parseCSV
\* the commas of a line that stand outside quotes: those with an even number
\* of quote characters before them
UnquotedCommas(line) ==
  {i \in 1..Len(line) :
     /\ line[i] = ","
     /\ Cardinality({j \in 1..(i - 1) : line[j] = "\""}) % 2 = 0}

\* the m-th stretch of a line between its unquoted commas
Piece(line, m) ==
  LET cuts == UnquotedCommas(line)
      before == {i \in cuts : Cardinality({j \in cuts : j <= i}) = m - 1}
      after == {i \in cuts : Cardinality({j \in cuts : j <= i}) = m}
      from == IF before = {} THEN 1 ELSE Max(before) + 1
      to == IF after = {} THEN Len(line) ELSE Max(after) - 1
  IN  SubSeq(line, from, to)

\* quotes occurring only in adjacent pairs
RECURSIVE QuotesPaired(_)
QuotesPaired(s) ==
  IF s = <<>> THEN TRUE
  ELSE IF Head(s) # "\"" THEN QuotesPaired(Tail(s))
  ELSE Len(s) >= 2 /\ s[2] = "\"" /\ QuotesPaired(Tail(Tail(s)))

\* every pair of quotes replaced by one quote
RECURSIVE Unpaired(_)
Unpaired(s) ==
  IF s = <<>> THEN <<>>
  ELSE IF Head(s) # "\"" THEN <<Head(s)>> \o Unpaired(Tail(s))
  ELSE <<"\"">> \o Unpaired(Tail(Tail(s)))

\* a field written between enclosing quotes
QuoteEnclosed(piece) ==
  /\ Len(piece) >= 2
  /\ piece[1] = "\""
  /\ piece[Len(piece)] = "\""
  /\ QuotesPaired(SubSeq(piece, 2, Len(piece) - 1))

\* C16: every line parseCSV splits gives 1 + (number of unquoted commas)
\* fields; a stretch without quotes is its field as written, and a
\* quote-enclosed stretch gives what stands between the enclosing quotes, its
\* commas kept and every doubled quote turned into one quote.
C16_FieldsSplitAtUnquotedCommas ==
  parsePc = "returned" =>
    \A n \in 1..Len(parsedLines) :
      LET line == parsedLines[n].line
          fields == parsedLines[n].fields
      IN  /\ Len(fields) = 1 + Cardinality(UnquotedCommas(line))
          /\ \A m \in 1..Len(fields) :
               LET piece == Piece(line, m)
               IN  /\ ~includes(piece, "\"") => fields[m] = piece
                   /\ QuoteEnclosed(piece) =>
                        fields[m] = Unpaired(SubSeq(piece, 2, Len(piece) - 1))

\* the line  ""","  : one quoted field holding an escaped quote and a comma
C16_Witness ==
  /\ parsePc = "returned"
  /\ \E n \in 1..Len(parsedLines) :
       /\ parsedLines[n].line = <<"\"", "\"", "\"", ",", "\"">>
       /\ parsedLines[n].fields = << <<"\"", ",">> >>

\* no white space at either end
Trimmed(s) == s = <<>> \/ (~IsWhiteSpace(s[1]) /\ ~IsWhiteSpace(s[Len(s)]))

\* the lines of the text after its header line that are not blank, in order
NonBlankDataLines ==
  SelectSeq(Tail(split(trim(parseArg), "\n")),
            LAMBDA line : \E i \in 1..Len(line) : ~IsWhiteSpace(line[i]))

\* C17: parseCSV returns one row per non-blank data line, in the order of the
\* lines; the keys of every row are exactly the trimmed header names, every
\* value is trimmed, a header beyond the line's last field has the empty
\* string, and the fields beyond the last header appear nowhere (of two headers
\* with one name the later one gives the value).
C17_OneRowPerDataLineKeyedByHeaders ==
  parsePc = "returned" =>
    LET headers == parsedLines[1].fields
    IN  /\ Len(parsedRows) = Len(NonBlankDataLines)
        /\ Len(parsedLines) = 1 + Len(parsedRows)
        /\ \A i \in 1..Len(parsedRows) :
             LET fields == parsedLines[i + 1].fields
             IN  /\ parsedLines[i + 1].line = trim(NonBlankDataLines[i])
                 /\ DOMAIN parsedRows[i] = {trim(headers[j]) : j \in 1..Len(headers)}
                 /\ \A k \in DOMAIN parsedRows[i] : Trimmed(k) /\ Trimmed(parsedRows[i][k])
                 /\ \A j \in 1..Len(headers) :
                      (\A l \in (j + 1)..Len(headers) : trim(headers[l]) # trim(headers[j])) =>
                        parsedRows[i][trim(headers[j])] =
                          IF j <= Len(fields) THEN trim(fields[j]) ELSE <<>>

\* header " h , k ", then the lines "a", " " and "a,b,c": a missing field, a
\* blank line and a field too many
C17_Witness ==
  /\ parsePc = "returned"
  /\ parseArg = <<" ", "h", " ", ",", " ", "k", " ">> \o <<"\n">> \o <<"a">> \o <<"\n">> \o <<" ">> \o <<"\n">> \o <<"a", ",", "b", ",", "c">>
  /\ parsedRows = << (<<"h">> :> <<"a">>) @@ (<<"k">> :> <<>>), (<<"h">> :> <<"a">>) @@ (<<"k">> :> <<"b">>) >>

\* ------------------------------------------------------- degenerate input
\* nothing but white space after the first line end, if there is one
HeaderOnly(csvText) ==
  \A i \in 1..Len(csvText) :
    csvText[i] = "\n" => \A j \in (i + 1)..Len(csvText) : IsWhiteSpace(csvText[j])

\* C18: when the fetched text is empty or holds a header line only, parseCSV
\* returns no rows and processing them leaves cleanedData, districtCounts and
\* hoverInfo empty and the maximum at 1.
C18_DegenerateInputGivesEmptyAggregates ==
  (dashPc # "constructed" /\ HeaderOnly(fetchedText)) =>
    /\ rawData = <<>>
    /\ cleanedData = <<>>
    /\ DOMAIN districtCounts = {}
    /\ DOMAIN hoverInfo = {}
    /\ maxContracts = 1

C18_Witness ==
  /\ dashPc = "loaded"
  /\ fetchedText = HeaderLine
  /\ rawData = <<>>
  /\ maxContracts = 1

\* ------------------------------------------------------ currency round trip
\* C19: parseCurrency of a non-negative amount written with the dollar sign
\* and thousands separators is the amount: of formatCurrency(v, false) for a
\* whole-dollar v, zero included, and of an amount with cents written
\* "$1,234.56".
C19_WrittenAmountParsesBack ==
  tripPc = "parsed" => tripResult = tripAmount

\* 1,234,567 written "$1,234,567" and parsed back
C19_Witness ==
  /\ tripPc = "parsed"
  /\ tripText = <<"$", "1", ",", "2", "3", "4", ",", "5", "6", "7">>
  /\ tripAmount = Num(1234567)
  /\ tripResult = Num(1234567)

\* ------------------------------------------------------- the update workflow
\* no two files of data/ next to each other by date have the same content
ConsecutiveSnapshotsDiffer ==
  \A d \in DOMAIN dataDir, e \in DOMAIN dataDir :
    (d < e /\ \A f \in DOMAIN dataDir : ~(d < f /\ f < e)) => dataDir[d] # dataDir[e]

\* C20 as stated: the download of a run is kept exactly when data/ held no
\* CSV before the run or the latest one it held differs from the download;
\* and no two consecutive snapshots are identical.
C20_KeptIffDiffersFromLatestKept ==
  /\ lastRun.ran =>
       (lastRun.kept <=>
          \/ DOMAIN lastRun.before = {}
          \/ lastRun.before[Max(DOMAIN lastRun.before)] # lastRun.content)
  /\ ConsecutiveSnapshotsDiffer

\* C20: the download of a run is kept exactly when data/ held no CSV of
\* another date before the run or the latest such CSV differs from the
\* download (a file already there under the run's own date is replaced by the
\* download and is not what it is compared with); and no two consecutive
\* snapshots are identical.
C20_KeptIffDiffersFromLatestOfAnotherDate ==
  /\ lastRun.ran =>
       LET others == DOMAIN lastRun.before \ {lastRun.day}
       IN  lastRun.kept <=>
             \/ others = {}
             \/ lastRun.before[Max(others)] # lastRun.content
  /\ ConsecutiveSnapshotsDiffer

\* a second run on day 2: A kept on day 1, B kept on day 2, then A downloaded
\* again, compared with day 1's file and removed
C20_Witness ==
  /\ lastRun.ran
  /\ lastRun.day = 2
  /\ lastRun.before = (1 :> "A") @@ (2 :> "B")
  /\ lastRun.content = "A"
  /\ ~lastRun.kept

\* --------------------------------------------------------------------- C21
\* the visitor's actions C21 speaks of
TabOrHashActions == {"click", "hash", "history"}

\* C21: a click on a tab never invokes onRouteChange, neither in its handler
\* nor when the hashchange event it raised is handled; every tab click, hash
\* edit and back/forward step leads to at most one call of activateTab; and
\* no action leads to more than two hashchange events (its own and the one of
\* the hash the handler writes), so the handlers come to rest.
C21_TabAndHashSyncWithoutLoop ==
  navPc \notin {"idle", "start"} =>
    \A a \in 1..trace.userActions :
      /\ trace.kind[a] = "click" => trace.routeCalls[a] = 0
      /\ trace.kind[a] \in TabOrHashActions => trace.activateCalls[a] <= 1
      /\ trace.events[a] <= 2

\* a click on another tab changed the hash, and the hashchange event it raised
\* has been handled: one activation, no route callback
C21_Witness ==
  /\ navPc = "done"
  /\ trace.userActions >= 1
  /\ trace.kind[1] = "click"
  /\ trace.activateCalls[1] = 1
  /\ trace.events[1] = 1
  /\ trace.routeCalls[1] = 0
  /\ window.hashchanges = <<>>
  /\ trace.lastCall = "hashchange"
  /\ trace.cause = 1

\* --------------------------------------------------------------------- C22
\* the cleaned records of a district, in the order of the file
RecordsOfDistrict(districtCode) ==
  SelectSeq(pageData, LAMBDA award : award.District = districtCode)

\* C22: a cancellations page opened with a district hash and left alone by
\* the visitor shows the district summary under that code from the router's
\* init on; that first route callback ran while cleanedData was still empty
\* and listed nothing; once init has run to its end the summary lists exactly
\* the cleaned records whose District is that code. With the visitor acting
\* too: whenever init has ended and no hashchange is waiting, a district
\* route has the records of its district listed.
C22_DistrictHashShownAfterLoad ==
  /\ (page = "cancellations" /\ trace.userActions = 0 /\ isDistrictRoute(trace.loadedHash)
        /\ navPc \in {"loading", "rendering", "done"}) =>
       /\ trace.routeCalls[0] = 1
       /\ "district-summary" \in dom.activePanels
       /\ dom.districtTitle = trace.loadedHash
       /\ navPc \in {"loading", "rendering"} => dom.districtAwards = <<>>
       /\ navPc = "done" => dom.districtAwards = RecordsOfDistrict(trace.loadedHash)
  /\ (page = "cancellations" /\ navPc = "done" /\ window.hashchanges = <<>>
        /\ router.currentRoute.type = "string" /\ isDistrictRoute(router.currentRoute.chars)) =>
       /\ dom.districtTitle = router.currentRoute.chars
       /\ dom.districtAwards = RecordsOfDistrict(router.currentRoute.chars)

\* the page was opened with #CA-37, the file held a record of CA-37 and one of
\* TX-02, init has ended and the summary lists the one record of CA-37
C22_Witness ==
  /\ page = "cancellations"
  /\ trace.loadedHash = <<"C", "A", "-", "3", "7">>
  /\ trace.userActions = 0
  /\ navPc = "done"
  /\ Len(pageData) = 2
  /\ pageData[1].District = <<"T", "X", "-", "0", "2">>
  /\ dom.districtAwards = <<pageData[2]>>
  /\ pageData[2].District = <<"C", "A", "-", "3", "7">>

\* --------------------------------------------------------------------- C24
\* a hash that is neither a key of the route map nor a district route
UnknownHash(fragment) ==
  /\ fragment # <<>>
  /\ \A i \in 1..Len(routeMap(page)) : routeMap(page)[i].route # fragment
  /\ ~isDistrictRoute(fragment)

\* the default tab is the active one, and the router's route and the hash of
\* the URL are the default route
AtDefault(tabsNow, routerNow, domNow, windowNow) ==
  /\ tabsNow.currentTab = RouteMapLookup(page, defaultRoute(page)).id
  /\ domNow.activeTabs = {RouteMapLookup(page, defaultRoute(page)).id}
  /\ RouteMapLookup(page, defaultRoute(page)).id \in domNow.activePanels
  /\ routerNow.currentRoute = JSString(defaultRoute(page))
  /\ windowNow.fragment = defaultRoute(page)

\* C24 as stated: when the router handles a hash that is neither a known
\* route nor a district route (at its init or on a hashchange event), the
\* default tab is active afterwards and the router's current route and the
\* hash of the URL are the default route.
C24_UnknownHashLeadsToDefault ==
  [][((initTabs \/ hashchange) /\ UnknownHash(window.fragment))
       => AtDefault(pageTabs', router', dom', window')]_vars

\* --------------------------------------------------------------------- C25
\* C25 as stated: once the page tabs are initialised, at most one tab and at
\* most one panel carry the active class, and getCurrentTab() names exactly
\* the tab that carries it.
C25_OneActiveTabNamedByCurrentTab ==
  navPc \notin {"idle", "start"} =>
    /\ Cardinality(dom.activeTabs) <= 1
    /\ Cardinality(dom.activePanels) <= 1
    /\ dom.activeTabs = (IF pageTabs.currentTab = NoTab THEN {} ELSE {pageTabs.currentTab})

\* --------------------------------------------------------------------- C26
\* HashRouter.getCurrentRoute() is the hash of the URL, or the default route
\* when the hash is empty
RouteMatchesHash ==
  router.currentRoute =
    JSString(IF window.fragment = <<>> THEN defaultRoute(page) ELSE window.fragment)

\* navigate(getCurrentRoute()) leaves tabs, router, document and URL as they
\* are and calls neither onRouteChange nor activateTab
NavigateToCurrentRouteIsNoOp ==
  router.currentRoute.type = "string" =>
    LET after == navigate(World, router.currentRoute.chars, TRUE)
    IN  /\ after.pageTabs = pageTabs
        /\ after.router = router
        /\ after.dom = dom
        /\ after.window = window
        /\ after.trace.routeCalls = trace.routeCalls
        /\ after.trace.activateCalls = trace.activateCalls

\* C26: when the last thing that happened to the router is a call of navigate
\* or a handled hashchange (and the visitor has not acted since),
\* getCurrentRoute() equals the hash of the URL, or the default route for an
\* empty hash; and navigate to the current route changes nothing and fires no
\* callback.
C26_CurrentRouteIsHash ==
  navPc \notin {"idle", "start"} =>
    /\ trace.lastCall # "none" => RouteMatchesHash
    /\ NavigateToCurrentRouteIsNoOp

\* the page was opened without a hash, the router holds the default route;
\* then the visitor typed #foo, and the handler of that hashchange has led the
\* router and the hash to the default route
C26_Witness ==
  /\ trace.loadedHash = <<>>
  /\ trace.userActions = 1
  /\ trace.kind[1] = "hash"
  /\ trace.lastCall = "navigate"
  /\ window.history = {<<>>, <<"f", "o", "o">>, defaultRoute(page)}
  /\ window.fragment = defaultRoute(page)
  /\ router.currentRoute = JSString(window.fragment)

\* --------------------------------------------------------------------- C23
\* states zoomToState does not zoom to: unknown to the FIPS table, or without
\* a feature in the districts file
NotZoomable(stateAbbr) ==
  \/ StateFipsLookup(stateAbbr).type = "undefined"
  \/ \A f \in MapFeatures : f.STATEFP # StateFipsLookup(stateAbbr).chars

\* C23: a click on a district polygon at national view, with the state
\* handler set and the polygon's state known, invokes onStateClick once and
\* not onDistrictClick; a click while the map is zoomed to a state invokes
\* onDistrictClick only (once when the polygon has a district code and the
\* handler is set); resetZoom leaves currentZoomState null; zoomToState for a
\* state the FIPS table does not know or the map has no feature of leaves
\* currentZoomState as it is.
C23_ClickDispatchesByZoomState ==
  zoomPc # "idle" =>
    /\ (lastClick.clicked /\ lastClick.zoomBefore = JSNull /\ lastClick.handlerSet
          /\ FipsStateLookup(lastClick.STATEFP).type = "string") =>
         (lastClick.stateCalls = 1 /\ lastClick.districtCalls = 0)
    /\ (lastClick.clicked /\ lastClick.zoomBefore # JSNull) =>
         /\ lastClick.stateCalls = 0
         /\ lastClick.districtCalls =
              (IF FipsStateLookup(lastClick.STATEFP).type = "string" THEN 1 ELSE 0)
    /\ districtMap.zoom => resetZoom(ZoomWorld).districtMap.currentZoomState = JSNull
    /\ \A stateAbbr \in SelectorStates :
         NotZoomable(stateAbbr) =>
           zoomToState(ZoomWorld, stateAbbr).districtMap = districtMap

\* the map was zoomed to California when a polygon of Texas was clicked: the
\* district handler ran, the selector and the map moved to Texas; then the
\* visitor picked Puerto Rico, of which the map has no feature, and the map
\* stayed on Texas
C23_Witness ==
  /\ lastClick.clicked
  /\ lastClick.zoomBefore = JSString(<<"C", "A">>)
  /\ lastClick.STATEFP = <<"4", "8">>
  /\ lastClick.districtCalls = 1
  /\ lastClick.stateCalls = 0
  /\ stateSelector.selectedState = JSString(<<"P", "R">>)
  /\ districtMap.currentZoomState = JSString(<<"T", "X">>)

\* --------------------------------------------------------------------- C27
\* C27 as stated: whenever the map is at national view (currentZoomState
\* null), no state outline is present.
C27_NoOutlineAtNationalView ==
  (zoomPc # "idle" /\ districtMap.currentZoomState = JSNull) =>
    districtMap.stateOutlineGroup = JSNull

\* --------------------------------------------------------------------- C28
\* C28 as stated: once the selector is wired to the map, after every
\* interaction the selector's selectedState equals the map's
\* currentZoomState (both null exactly at national view).
C28_SelectorMatchesZoom ==
  zoomPc = "ready" => stateSelector.selectedState = districtMap.currentZoomState

\* --------------------------------------------------------------------- C29
\* GEOIDs of features of the districts file (California 12 and 37, Delaware
\* and Alaska at large)
DistrictFeatureIds == {<<"0", "6", "1", "2">>, <<"0", "6", "3", "7">>, <<"1", "0", "0", "0">>, <<"0", "2", "0", "0">>}

\* the bubbles the map draws: the features whose value in the data map is
\* above zero
BubbleGeoids ==
  {g \in DistrictFeatureIds \cap DOMAIN map.dataMap : map.dataMap[g] > 0}

\* the records counted into the bubble of a GEOID
RecordsOfBubble(g) ==
  SelectSeq(cleanedData, LAMBDA award : award.geoid = JSString(g))

\* the records the district summary lists for a district code
RecordsListed(districtCode) ==
  renderDistrictAwards([dom |-> [districtTitle |-> <<>>, districtAwards |-> <<>>],
                        cleanedData |-> cleanedData],
                       districtCode).dom.districtAwards

\* C29 as stated: for every GEOID with a bubble, the click handler derives a
\* district code that is a district route, and the summary it opens lists
\* exactly the cleaned records whose GEOID is that of the bubble.
C29_BubbleSummaryListsBubbleRecords ==
  dashPc \in {"mapped", "rendered"} =>
    \A g \in BubbleGeoids :
      /\ BubbleDistrictCode(g).type = "string"
      /\ isDistrictRoute(BubbleDistrictCode(g).chars)
      /\ RecordsListed(BubbleDistrictCode(g).chars) = RecordsOfBubble(g)

\* --------------------------------------------------------------------- C30
\* C30 as stated: once the value boxes are filled and a state's district
\* list is rendered, a listed district carries the report download exactly
\* when it is among the districts counted in "districts reached", whatever
\* fiscal-year columns the file has.
C30_ReachedIffDownloadOffered ==
  sciPc = "ready" =>
    \A i \in 1..Len(sciSelector.items) :
      sciSelector.items[i].download <=>
        \E j \in 1..Len(sciStats.districtsWithSpending) :
          sciStats.districtsWithSpending[j] = sciSelector.items[i].district

\* the same with every detected year among 2022, 2023 and 2024
C30_HoldsForYears2022To2024 ==
  (sciPc = "ready" /\ \A i \in 1..Len(sciDashboard.fiscalYears) :
                         sciDashboard.fiscalYears[i] \in 2022..2024) =>
    \A i \in 1..Len(sciSelector.items) :
      sciSelector.items[i].download <=>
        \E j \in 1..Len(sciStats.districtsWithSpending) :
          sciStats.districtsWithSpending[j] = sciSelector.items[i].district

====
